---- MODULE Spec2Model ----
(***************************************************************************)
(* Model of the node lifecycle of w0fv1/Pipeline (src/node/core/Node.ts,   *)
(* BaseParallelNode.ts, ParallelNode.ts, ToolPipelineNode.ts).             *)
(*                                                                         *)
(* A Node is an object with three lifecycle flags, two memoized promises,  *)
(* two buffers and a consumer list.  Every public method is an async       *)
(* function: it runs synchronously up to its first await, calls it makes   *)
(* on other nodes included, and each later continuation is a step of its   *)
(* own.  The synchronous parts are operators from a world (the record of   *)
(* all fields of all nodes) to a world; an action applies one of them.     *)
(*                                                                         *)
(* The hooks of a leaf node are abstract: a hook is invoked, stays pending *)
(* for any number of steps and then settles with success or failure.  The  *)
(* hooks of ParallelNode and of the bridge (CallbackSinkNode) are the      *)
(* repository's code and are modelled as written.                          *)
(***************************************************************************)
EXTENDS Integers, Sequences, FiniteSets, TLC

\* ------------------------------------------------------------------ bounds
MaxStartCalls == 2
MaxDisposeCalls == 2
MaxMsgs == 2
MaxEdgeMsgs == 2
MaxFanMsgs == 1
MaxBuildOps == 3
MaxLinks == 3

Nodes == {"p", "c1", "c2", "b", "b2", "d"}

\* The start() and dispose() calls made on a node from outside, numbered in
\* the order made.
StartCalls == 1..MaxStartCalls
DisposeCalls == 1..MaxDisposeCalls

\* The calls a composite makes on its children and its bridge: start() in
\* startBase, dispose() in the rollback of startBase and in disposeBase.
OwnerStart == 0
OwnerDispose == 0
OwnerRollback == -1
AllStartCalls == {OwnerStart} \cup StartCalls

\* Pipeline.start() call k calls start() on the anchors as their call k, and
\* Pipeline.dispose() call k calls dispose() on them as their call k; the
\* dispose() calls of the rollback of Pipeline.start() call k are numbered
\* PipeRollback(k).
PipeRollback(k) == 0 - (k + 1)
AllDisposeCalls ==
    {OwnerRollback, OwnerDispose} \cup DisposeCalls \cup {PipeRollback(k) : k \in StartCalls}

\* The caller of a receive() that is not a node of the model.
External == "ext"

VARIABLES
    msgLimit,        \* bound: the number of messages the run may create
    kind,            \* concrete class: "leaf" (abstract hooks), "parallel", "chain", "bridge"
    consumers,       \* Node.consumers: sequence of nodes
    children,        \* BaseParallelNode.children: sequence of nodes
    head,            \* ChainNode.head ("" for null and for other nodes)
    tail,            \* ChainNode.tail ("" for null and for other nodes)
    bridge,          \* BaseParallelNode.bridge of a composite ("" for other nodes)
    owner,           \* the composite whose dispatch a bridge's callback calls
    started,         \* Node.started
    starting,        \* Node.starting
    disposed,        \* Node.disposed
    aborted,         \* Node.abortController.signal.aborted
    startPromise,    \* Node.startPromise: "none", "pending" or its settled value
    disposePromise,  \* Node.disposePromise
    inboundBuffer,   \* Node.inboundBuffer
    outboundBuffer,  \* Node.outboundBuffer
    startPc,         \* position of startInternal()
    batch,           \* local 'batch' of flushInbound(): messages still to deliver
    flushWait,       \* index in recvLog of the onReceive flushInbound() awaits (0: none)
    disposePc,       \* position of disposeInternal()
    hookPc,          \* position of startBase() / disposeBase() of a composite
    running,         \* indices in recvLog of the onReceive invocations still pending
    startCall,       \* per start() call: "idle", "waiting" or the settled outcome
    disposeCall,     \* per dispose() call: "idle", "waiting" or the settled outcome
    nextId,          \* number of messages created so far (Message.id)
    recvLog,         \* history: the onReceive invocations of a node, in order
    bufferedLog,     \* history: the messages receive() appended to inboundBuffer
    invoked,         \* history: outcome of every receive() call, by <<target, id, caller>>
    created,         \* history: per message id, the call that created it
    hookFailed,      \* history: <<node, index>> of the onReceive invocations that threw
    onStartCalls,    \* history: number of onStart invocations
    onDisposeCalls,  \* history: number of onDispose invocations
    liveStart,       \* history: start() calls issued while the node was not disposed, in order
    inFlightDispose, \* history: nodes whose dispose() was called while their start was pending
    buildLog,        \* history: the wiring and child-adding calls made, with their outcome
    ctor,            \* the class (constructor) of each node
    dependsOn,       \* per class: static dependency.dependsOn, a class or ""
    optional,        \* per class: static dependency.optional
    roots,           \* Pipeline.roots, in insertion order
    keepAliveRoots,  \* Pipeline.keepAliveRoots
    pBuilt,          \* Pipeline.built
    pStarted,        \* Pipeline.started
    activeTopo,      \* Pipeline.activeTopo
    pStart,          \* per Pipeline.start() call: its position, locals and outcome
    pDispose         \* per Pipeline.dispose() call: its position, locals and outcome

vars == <<msgLimit, kind, consumers, children, head, tail, bridge, owner, started, starting,
          disposed, aborted, startPromise, disposePromise, inboundBuffer,
          outboundBuffer, startPc, batch, flushWait, disposePc, hookPc, running,
          startCall, disposeCall, nextId, recvLog, bufferedLog, invoked, created,
          hookFailed, onStartCalls, onDisposeCalls, liveStart, inFlightDispose,
          buildLog, ctor, dependsOn, optional, roots, keepAliveRoots, pBuilt,
          pStarted, activeTopo, pStart, pDispose>>

\* The world: every field of every node, and the history.
World ==
    [msgLimit |-> msgLimit, kind |-> kind, consumers |-> consumers,
     children |-> children, head |-> head, tail |-> tail,
     bridge |-> bridge, owner |-> owner,
     started |-> started, starting |-> starting, disposed |-> disposed,
     aborted |-> aborted, startPromise |-> startPromise,
     disposePromise |-> disposePromise, inboundBuffer |-> inboundBuffer,
     outboundBuffer |-> outboundBuffer, startPc |-> startPc, batch |-> batch,
     flushWait |-> flushWait, disposePc |-> disposePc, hookPc |-> hookPc,
     running |-> running, startCall |-> startCall, disposeCall |-> disposeCall,
     nextId |-> nextId, recvLog |-> recvLog, bufferedLog |-> bufferedLog,
     invoked |-> invoked, created |-> created, hookFailed |-> hookFailed,
     onStartCalls |-> onStartCalls, onDisposeCalls |-> onDisposeCalls,
     liveStart |-> liveStart, inFlightDispose |-> inFlightDispose,
     buildLog |-> buildLog, ctor |-> ctor, dependsOn |-> dependsOn,
     optional |-> optional, roots |-> roots, keepAliveRoots |-> keepAliveRoots,
     pBuilt |-> pBuilt, pStarted |-> pStarted, activeTopo |-> activeTopo,
     pStart |-> pStart, pDispose |-> pDispose]

\* The step leaves the world w.
Becomes(w) ==
    /\ msgLimit' = w.msgLimit /\ kind' = w.kind /\ consumers' = w.consumers
    /\ children' = w.children /\ head' = w.head /\ tail' = w.tail
    /\ bridge' = w.bridge /\ owner' = w.owner
    /\ started' = w.started /\ starting' = w.starting /\ disposed' = w.disposed
    /\ aborted' = w.aborted /\ startPromise' = w.startPromise
    /\ disposePromise' = w.disposePromise /\ inboundBuffer' = w.inboundBuffer
    /\ outboundBuffer' = w.outboundBuffer /\ startPc' = w.startPc
    /\ batch' = w.batch /\ flushWait' = w.flushWait /\ disposePc' = w.disposePc
    /\ hookPc' = w.hookPc /\ running' = w.running /\ startCall' = w.startCall
    /\ disposeCall' = w.disposeCall /\ nextId' = w.nextId /\ recvLog' = w.recvLog
    /\ bufferedLog' = w.bufferedLog /\ invoked' = w.invoked /\ created' = w.created
    /\ hookFailed' = w.hookFailed /\ onStartCalls' = w.onStartCalls
    /\ onDisposeCalls' = w.onDisposeCalls /\ liveStart' = w.liveStart
    /\ inFlightDispose' = w.inFlightDispose /\ buildLog' = w.buildLog
    /\ ctor' = w.ctor /\ dependsOn' = w.dependsOn /\ optional' = w.optional
    /\ roots' = w.roots /\ keepAliveRoots' = w.keepAliveRoots
    /\ pBuilt' = w.pBuilt /\ pStarted' = w.pStarted /\ activeTopo' = w.activeTopo
    /\ pStart' = w.pStart /\ pDispose' = w.pDispose

Settled(p) == p \notin {"none", "pending"}

\* Variant: the guard is absent.
UnusableNever(w, n) == FALSE

\* Node.disposed || Node.abortSignal.aborted
Unusable(w, n) == w.disposed[n] \/ w.aborted[n]

\* ---------------------------------------------------------------- messages
\* Message: id, nodeId and data (nodeName and time are not modelled).
Message(id, from, data) == [id |-> id, nodeId |-> from, data |-> data]

\* The payload of the messages whose data no node looks at.
NoData == 0

Msg(id, from) == Message(id, from, NoData)

\* Variant: a node that is not started buffers whether or not it is starting.
ReceiveKindBufferUnstarted(w, n) ==
    IF w.disposed[n] THEN "disposed"
    ELSE IF w.aborted[n] THEN "aborted"
    ELSE IF ~w.started[n] THEN "buffered"
    ELSE "invoke"

\* Node.receive, lines 118-131: what the call does before it reaches onReceive.
ReceiveKind(w, n) ==
    IF w.disposed[n] THEN "disposed"
    ELSE IF w.aborted[n] THEN "aborted"
    ELSE IF ~w.started[n]
         THEN (IF w.starting[n] THEN "buffered" ELSE "notStarted")
         ELSE "invoke"

\* Variant: without the try/catch, the failure of onReceive rejects receive().
ReceiveOutcomePropagated(hookOk) == IF hookOk THEN "ok" ELSE "hookFail"

\* Node.receive, lines 133-143: the value receive() settles with once the hook
\* has settled; a failure of onReceive is caught and logged.
ReceiveOutcome(hookOk) == "ok"

\* Variant: the message is put at the front of the buffer.
BufferInboundFront(buf, m) == <<m>> \o buf

\* Node.receive, line 127: inboundBuffer.push(msg).
BufferInbound(buf, m) == Append(buf, m)

\* A node that has finished start() and is not disposed.
Ready(w, n) == w.startPromise[n] = "ok" /\ ~w.disposed[n]

\* History kept with a dispatched message: the consumers that had finished
\* start() and were not disposed when a ready node dispatched it.
ReadyTargets(w, n) ==
    IF Ready(w, n)
    THEN {w.consumers[n][i] : i \in {j \in DOMAIN w.consumers[n] : Ready(w, w.consumers[n][j])}}
    ELSE {}

\* Node.dispatchInternal, lines 182-188: what dispatch does with the message.
DispatchKind(w, n) ==
    IF w.started[n] THEN "fanout"
    ELSE IF w.starting[n] THEN "buffered" ELSE "notStarted"

RECURSIVE ReceiveSync(_, _, _, _)
RECURSIVE FanTo(_, _, _, _)
RECURSIVE FanToUntilFailure(_, _, _, _)
RECURSIVE dispatchInternal(_, _, _)

\* Variant: the loop starts at the second consumer.
fanoutSkipFirst(w, n, m) ==
    IF w.consumers[n] = <<>> THEN w ELSE FanTo(w, Tail(w.consumers[n]), m, n)

\* Node.fanout, lines 193-209.
fanout(w, n, m) == FanTo(w, w.consumers[n], m, n)

\* Node.dispatchInternal, lines 168-191.
dispatchInternal(w, n, data) ==
    IF Unusable(w, n) THEN w
    ELSE LET m == Message(w.nextId + 1, n, data)
             res == DispatchKind(w, n)
             w0 == [w EXCEPT !.nextId = @ + 1,
                             !.created = Append(@, [op |-> "dispatch", node |-> n, res |-> res,
                                                    ready |-> ReadyTargets(w, n),
                                                    data |-> data])]
         IN  CASE res = "buffered" -> [w0 EXCEPT !.outboundBuffer[n] = Append(@, m)]
               [] res = "notStarted" -> w0
               [] OTHER -> fanout(w0, n, m)

\* Variant: the message goes to the first child only.
ParallelOnReceiveFirstOnly(w, n, m) ==
    IF w.children[n] = <<>> THEN w ELSE ReceiveSync(w, Head(w.children[n]), m, n)

\* ParallelNode.onReceive: receive() on every child of the snapshot, each
\* call detached with .catch; the hook returns without awaiting any of them.
ParallelOnReceive(w, n, m) == FanTo(w, w.children[n], m, n)

\* CallbackSinkNode.onReceive with the callback the composite gives its
\* bridge: 'await this.dispatch(data)' of the composite, which throws when the
\* composite is neither started nor starting.
BridgeOnReceive(w, n, m) == dispatchInternal(w, w.owner[n], m.data)

BridgeCallbackOk(w, n) ==
    Unusable(w, w.owner[n]) \/ DispatchKind(w, w.owner[n]) # "notStarted"

\* The synchronous part of target.receive(m), called by 'by'.
ReceiveSync(w, n, m, by) ==
    LET call == <<n, m.id, by>>
        k == ReceiveKind(w, n)
    IN  CASE k \in {"disposed", "aborted", "notStarted"} ->
                [w EXCEPT !.invoked = @ @@ (call :> k)]
          [] k = "buffered" ->
                [w EXCEPT !.invoked = @ @@ (call :> "buffered"),
                          !.inboundBuffer[n] = BufferInbound(@, m),
                          !.bufferedLog[n] = Append(@, m)]
          [] OTHER ->
                LET w2 == [w EXCEPT !.recvLog[n] = Append(@, [msg |-> m, by |-> by,
                                                              phase |-> w.startPc[n]])]
                    idx == Len(w2.recvLog[n])
                IN  CASE w.kind[n] = "parallel" ->
                            ParallelOnReceive([w2 EXCEPT !.invoked = @ @@ (call :> "ok")], n, m)
                      [] w.kind[n] = "bridge" ->
                            BridgeOnReceive(
                                [w2 EXCEPT !.invoked = @ @@ (call :> ReceiveOutcome(BridgeCallbackOk(w, n))),
                                           !.hookFailed = IF BridgeCallbackOk(w, n) THEN @
                                                          ELSE @ \cup {<<n, idx>>}], n, m)
                      [] w.kind[n] = "chain" /\ w.head[n] = "" ->
                            [w2 EXCEPT !.invoked = @ @@ (call :> ReceiveOutcome(FALSE)),
                                       !.hookFailed = @ \cup {<<n, idx>>}]
                      [] w.kind[n] = "chain" /\ w.head[n] # "" ->
                            ReceiveSync([w2 EXCEPT !.invoked = @ @@ (call :> "pending"),
                                                   !.running[n] = @ \cup {idx}],
                                        w.head[n], m, n)
                      [] OTHER ->
                            [w2 EXCEPT !.invoked = @ @@ (call :> "pending"),
                                       !.running[n] = @ \cup {idx}]

\* Variant: the loop ends at the first target whose receive() fails.
FanToUntilFailure(w, targets, m, by) ==
    IF targets = <<>> THEN w
    ELSE LET w1 == ReceiveSync(w, Head(targets), m, by)
         IN  IF w1.invoked[<<Head(targets), m.id, by>>] \in {"disposed", "aborted", "notStarted"}
             THEN w1
             ELSE FanToUntilFailure(w1, Tail(targets), m, by)

\* The loop of Node.fanout / ParallelNode.onReceive over a snapshot.
FanTo(w, targets, m, by) ==
    IF targets = <<>> THEN w
    ELSE FanTo(ReceiveSync(w, Head(targets), m, by), Tail(targets), m, by)

RECURSIVE FanoutAll(_, _, _)
FanoutAll(w, n, msgs) ==
    IF msgs = <<>> THEN w
    ELSE FanoutAll(fanout(w, n, Head(msgs)), n, Tail(msgs))

\* Variant: the outbound buffer is left for later.
flushOutboundLater(w, n) == w

\* Node.flushOutbound, lines 308-320.
flushOutbound(w, n) ==
    IF Unusable(w, n) THEN [w EXCEPT !.outboundBuffer[n] = <<>>]
    ELSE IF Len(w.outboundBuffer[n]) = 0 THEN w
    ELSE FanoutAll([w EXCEPT !.outboundBuffer[n] = <<>>], n, w.outboundBuffer[n])

\* ------------------------------------------------------------------- start
RECURSIVE start(_, _, _)
RECURSIVE dispose(_, _, _)

Reverse(s) == [i \in 1..Len(s) |-> s[Len(s) + 1 - i]]

IdleHook == [phase |-> "none", todo |-> <<>>, done |-> <<>>]

\* A Pipeline.start() call not made yet: 'todo' are the anchors of activeTopo
\* still to start, the first being awaited; 'startedAnchors' is the local of
\* that name; 'undo' are the anchors the rollback has still to dispose.
IdleStart ==
    [pc |-> "idle", todo |-> <<>>, startedAnchors |-> <<>>, undo |-> <<>>,
     result |-> "none", error |-> "none", stuck |-> {}]

\* A Pipeline.dispose() call not made yet.  'during' is history: the
\* Pipeline.start() calls that were in flight when the call was made.
IdleDispose == [pc |-> "idle", todo |-> <<>>, result |-> "none", during |-> {}]

\* A composite: ParallelNode (BaseParallelNode) or ChainNode.
Composite(w, n) == w.kind[n] \in {"parallel", "chain"}

\* Variant: a chain starts its children in append order.
StartPlanAppendOrder(w, n) ==
    IF w.kind[n] = "chain" /\ (w.head[n] = "" \/ w.tail[n] = "") THEN <<>>
    ELSE <<w.bridge[n]>> \o w.children[n]

\* The nodes a composite starts, in order.  BaseParallelNode.startBase: the
\* bridge, then the children in append order.  ChainNode.onStart: nothing for
\* an empty chain, else the bridge, then the children in reverse append order.
StartPlan(w, n) ==
    IF w.kind[n] = "chain"
    THEN (IF w.head[n] = "" \/ w.tail[n] = "" THEN <<>>
          ELSE <<w.bridge[n]>> \o Reverse(w.children[n]))
    ELSE <<w.bridge[n]>> \o w.children[n]

\* BaseParallelNode.startBase, lines 54-62, up to its first await: the bridge
\* first, then the children in append order; 'todo' starts with the node whose
\* start() is awaited and 'done' lists the nodes started so far.
startBase(w, n) ==
    LET plan == StartPlan(w, n)
        w1 == [w EXCEPT !.hookPc[n].start = [phase |-> "start", todo |-> plan, done |-> <<>>]]
    IN  IF plan = <<>> THEN w1 ELSE start(w1, Head(plan), OwnerStart)

\* The synchronous part of onStart: ParallelNode.onStart calls startBase and
\* ChainNode.onStart has the same loop; the hooks of the other nodes do
\* nothing the model sees before they settle.
onStart(w, n) == IF Composite(w, n) THEN startBase(w, n) ELSE w

\* Variant: start() has no guard.
StartRefusedNever(w, n) == FALSE

\* Node.start, line 256: the guard that rejects a start() on a disposed node.
StartRefused(w, n) == Unusable(w, n)

\* Variant: a start that failed is forgotten, so the next start() runs again.
StartMemoizedUnlessFailed(w, n) == w.startPromise[n] \notin {"none", "hookFail"}

\* Node.start, line 261: a start operation exists already and is shared.
StartMemoized(w, n) == w.startPromise[n] # "none"

\* Node.startInternal, lines 271-281, up to the await of onStart().
startInternal(w, n) ==
    IF w.started[n]
    THEN [w EXCEPT !.startPromise[n] = "ok", !.startPc[n] = "settled"]
    ELSE IF Unusable(w, n)
    THEN [w EXCEPT !.startPromise[n] = "cannotStart", !.startPc[n] = "settled"]
    ELSE onStart([w EXCEPT !.starting[n] = TRUE,
                           !.startPromise[n] = "pending",
                           !.startPc[n] = "onStart",
                           !.onStartCalls[n] = @ + 1], n)

\* Node.start, lines 255-265, up to its await.
start(w, n, k) ==
    IF StartRefused(w, n)
    THEN [w EXCEPT !.startCall[n][k] = "cannotStart"]
    ELSE LET w1 == [w EXCEPT !.startCall[n][k] = "waiting",
                             !.liveStart[n] = Append(@, k)]
         IN  IF StartMemoized(w1, n) THEN w1 ELSE startInternal(w1, n)

\* Variant: the node is not looked at when onStart has returned.
DisposedDuringOnStartNever(w, n) == FALSE

\* Node.startInternal, line 284: the check made when onStart has returned.
DisposedDuringOnStart(w, n) == Unusable(w, n)

\* Variant: a failed start leaves the buffers as they are.
afterOnStartKeepsBuffers(w, n, hookOk) ==
    IF ~hookOk \/ DisposedDuringOnStart(w, n)
    THEN [w EXCEPT !.starting[n] = FALSE,
                   !.startPromise[n] = IF hookOk THEN "disposedDuringStart" ELSE "hookFail",
                   !.startPc[n] = "settled"]
    ELSE flushOutbound([w EXCEPT !.started[n] = TRUE,
                                 !.starting[n] = FALSE,
                                 !.startPc[n] = "flushOut"], n)

\* Node.startInternal, lines 281-297: onStart has settled and the continuation
\* runs up to the await of flushOutbound(), whose body has no await and so
\* runs within this step.
afterOnStart(w, n, hookOk) ==
    IF ~hookOk \/ DisposedDuringOnStart(w, n)
    THEN [w EXCEPT !.inboundBuffer[n] = <<>>,
                   !.outboundBuffer[n] = <<>>,
                   !.starting[n] = FALSE,
                   !.startPromise[n] = IF hookOk THEN "disposedDuringStart" ELSE "hookFail",
                   !.startPc[n] = "settled"]
    ELSE flushOutbound([w EXCEPT !.started[n] = TRUE,
                                 !.starting[n] = FALSE,
                                 !.startPc[n] = "flushOut"], n)

\* The loop of Node.flushInbound, lines 331-343, from the message at the head
\* of 'b': a receive() that throws is caught and the loop goes on; a receive()
\* that reaches a pending onReceive is awaited.
RECURSIVE FlushLoop(_, _, _)
FlushLoop(w, n, b) ==
    IF b = <<>>
    THEN [w EXCEPT !.batch[n] = <<>>, !.flushWait[n] = 0, !.startPc[n] = "flushed"]
    ELSE LET w1 == ReceiveSync(w, n, Head(b), n)
         IN  IF Len(w1.recvLog[n]) \in w1.running[n] /\ Len(w1.recvLog[n]) > Len(w.recvLog[n])
             THEN [w1 EXCEPT !.batch[n] = Tail(b),
                             !.flushWait[n] = Len(w1.recvLog[n]),
                             !.startPc[n] = "flushIn"]
             ELSE FlushLoop(w1, n, Tail(b))

\* Node.flushInbound, lines 322-333: called when 'await flushOutbound()' resumes.
flushInbound(w, n) ==
    IF Unusable(w, n)
    THEN [w EXCEPT !.inboundBuffer[n] = <<>>, !.startPc[n] = "flushed"]
    ELSE IF Len(w.inboundBuffer[n]) = 0
    THEN [w EXCEPT !.startPc[n] = "flushed"]
    ELSE FlushLoop([w EXCEPT !.inboundBuffer[n] = <<>>], n, w.inboundBuffer[n])

\* Variant: no check after the flushes.
NoCheckAfterFlush(w, n) == FALSE

\* Node.startInternal, line 301: the check made when both flushes are done.
DisposedDuringFlush(w, n) == Unusable(w, n)

\* Node.start on a node, call k made from outside.
Start(n, k) ==
    /\ startCall[n][k] = "idle"
    /\ \A j \in StartCalls : j < k => startCall[n][j] # "idle"
    /\ Becomes(start(World, n, k))

\* The onStart hook of a leaf or of the bridge settles; the bridge's hook is
\* empty and cannot fail.
OnStartSettle(n, hookOk) ==
    /\ startPc[n] = "onStart"
    /\ kind[n] \in {"leaf", "bridge"}
    /\ kind[n] = "bridge" => hookOk
    /\ Becomes(afterOnStart(World, n, hookOk))

FlushInbound(n) ==
    /\ startPc[n] = "flushOut"
    /\ Becomes(flushInbound(World, n))

\* Node.startInternal, lines 298-304: 'await flushInbound()' resumes.
StartFinish(n) ==
    /\ startPc[n] = "flushed"
    /\ Becomes([World EXCEPT
           !.startPromise[n] = IF DisposedDuringFlush(World, n)
                               THEN "disposedDuringStart" ELSE "ok",
           !.startPc[n] = "settled"])

\* Node.start, lines 261 and 264: 'return await this.startPromise' resumes.
StartReturn(n, k) ==
    /\ startCall[n][k] = "waiting"
    /\ Settled(startPromise[n])
    /\ Becomes([World EXCEPT !.startCall[n][k] = startPromise[n]])

\* The outcome of the start() call a composite awaits, once it has one.
OwnerStartSettled(w, x) ==
    w.startCall[x][OwnerStart] = "cannotStart" \/ Settled(w.startPromise[x])

OwnerStartResult(w, x) ==
    IF w.startCall[x][OwnerStart] = "cannotStart" THEN "cannotStart" ELSE w.startPromise[x]

\* Variant: the rollback disposes the nodes in the order they were started.
startBaseNextForwardRollback(w, n) ==
    LET h == w.hookPc[n].start
        x == IF h.todo = <<>> THEN n ELSE Head(h.todo)
        res == OwnerStartResult(w, x)
        w1 == [w EXCEPT !.startCall[x][OwnerStart] = res]
    IN  IF h.todo = <<>>
        THEN afterOnStart([w EXCEPT !.hookPc[n].start.phase = "done"], n, TRUE)
        ELSE IF res = "ok"
        THEN IF Tail(h.todo) = <<>>
             THEN afterOnStart([w1 EXCEPT !.hookPc[n].start =
                                    [phase |-> "done", todo |-> <<>>, done |-> Append(h.done, x)]],
                               n, TRUE)
             ELSE start([w1 EXCEPT !.hookPc[n].start =
                             [phase |-> "start", todo |-> Tail(h.todo), done |-> Append(h.done, x)]],
                        Head(Tail(h.todo)), OwnerStart)
        ELSE IF h.done = <<>>
             THEN afterOnStart([w1 EXCEPT !.hookPc[n].start =
                                    [phase |-> "failed", todo |-> <<>>, done |-> <<>>]],
                               n, FALSE)
             ELSE dispose([w1 EXCEPT !.hookPc[n].start =
                               [phase |-> "rollback", todo |-> h.done, done |-> h.done]],
                          Head(h.done), OwnerRollback)

\* BaseParallelNode.startBase, lines 58-64 and 65-66: the awaited start() has
\* settled.  On success the next child is started, or startBase returns and
\* with it onStart; on failure the rollback begins with the last node started.
startBaseNext(w, n) ==
    LET h == w.hookPc[n].start
        x == IF h.todo = <<>> THEN n ELSE Head(h.todo)
        res == OwnerStartResult(w, x)
        w1 == [w EXCEPT !.startCall[x][OwnerStart] = res]
    IN  IF h.todo = <<>>
        THEN afterOnStart([w EXCEPT !.hookPc[n].start.phase = "done"], n, TRUE)
        ELSE IF res = "ok"
        THEN IF Tail(h.todo) = <<>>
             THEN afterOnStart([w1 EXCEPT !.hookPc[n].start =
                                    [phase |-> "done", todo |-> <<>>, done |-> Append(h.done, x)]],
                               n, TRUE)
             ELSE start([w1 EXCEPT !.hookPc[n].start =
                             [phase |-> "start", todo |-> Tail(h.todo), done |-> Append(h.done, x)]],
                        Head(Tail(h.todo)), OwnerStart)
        ELSE IF h.done = <<>>
             THEN afterOnStart([w1 EXCEPT !.hookPc[n].start =
                                    [phase |-> "failed", todo |-> <<>>, done |-> <<>>]],
                               n, FALSE)
             ELSE dispose([w1 EXCEPT !.hookPc[n].start =
                               [phase |-> "rollback", todo |-> Reverse(h.done), done |-> h.done]],
                          Head(Reverse(h.done)), OwnerRollback)

\* BaseParallelNode.startBase, lines 66-78: the awaited rollback dispose() has
\* settled, the next one is called, and after the bridge's the error is thrown.
rollbackNext(w, n) ==
    LET h == w.hookPc[n].start
        x == Head(h.todo)
        w1 == [w EXCEPT !.disposeCall[x][OwnerRollback] = w.disposePromise[x]]
    IN  IF Tail(h.todo) = <<>>
        THEN afterOnStart([w1 EXCEPT !.hookPc[n].start =
                               [phase |-> "failed", todo |-> <<>>, done |-> h.done]],
                          n, FALSE)
        ELSE dispose([w1 EXCEPT !.hookPc[n].start.todo = Tail(h.todo)],
                     Head(Tail(h.todo)), OwnerRollback)

StartBaseStep(n) ==
    /\ hookPc[n].start.phase = "start"
    /\ hookPc[n].start.todo # <<>> => OwnerStartSettled(World, Head(hookPc[n].start.todo))
    /\ Becomes(startBaseNext(World, n))

RollbackStep(n) ==
    /\ hookPc[n].start.phase = "rollback"
    /\ Settled(disposePromise[Head(hookPc[n].start.todo)])
    /\ Becomes(rollbackNext(World, n))

\* ----------------------------------------------------------------- receive
\* onReceive of a leaf settles: receive() resumes (lines 133-143) and, when
\* the call was made by flushInbound, its loop goes on with the next message
\* of the batch.
afterOnReceive(w, n, i, hookOk) ==
    LET e == w.recvLog[n][i]
        w1 == [w EXCEPT !.running[n] = @ \ {i},
                        !.invoked[<<n, e.msg.id, e.by>>] = ReceiveOutcome(hookOk),
                        !.hookFailed = IF hookOk THEN @ ELSE @ \cup {<<n, i>>}]
    IN  IF w.flushWait[n] = i THEN FlushLoop(w1, n, w.batch[n]) ELSE w1

OnReceiveSettle(n, hookOk) ==
    /\ kind[n] # "chain"
    /\ \E i \in running[n] : Becomes(afterOnReceive(World, n, i, hookOk))

\* ChainNode.onReceive, line 100: 'await this.head.receive(msg)' resumes when
\* the receive() of the head has settled; the hook returns, or throws what
\* the head's receive() threw.
ChainReceiveSettle(n) ==
    /\ kind[n] = "chain"
    /\ \E i \in running[n] :
          LET call == <<head[n], recvLog[n][i].msg.id, n>>
          IN  /\ call \in DOMAIN invoked
              /\ invoked[call] # "pending"
              /\ Becomes(afterOnReceive(World, n, i,
                     invoked[call] \notin {"disposed", "aborted", "notStarted"}))

\* The functions given to the MapNodes of the example: c1 is 'double' (n * 2)
\* and c2 computes the square of 'square' (n * n, without the text around it).
Map(n, x) == IF n = "c1" THEN x * 2 ELSE x * x

\* MapNode.onReceive: 'await this.map(msg.data, msg)' resumes, the result is
\* dispatched and the hook returns.
MapOnReceive(n) ==
    /\ kind[n] = "leaf"
    /\ \E i \in running[n] :
          Becomes(afterOnReceive(
              dispatchInternal(World, n, Map(n, recvLog[n][i].msg.data)), n, i,
              Unusable(World, n) \/ DispatchKind(World, n) # "notStarted"))

\* A caller outside the model calls n.receive(msg) with a new message.
Receive(n) ==
    /\ nextId < msgLimit
    /\ LET m == Msg(nextId + 1, External)
           w0 == [World EXCEPT !.nextId = @ + 1,
                               !.created = Append(@, [op |-> "receive", node |-> n,
                                                      res |-> "called", ready |-> {},
                                                      data |-> NoData])]
       IN  Becomes(ReceiveSync(w0, n, m, External))

\* A caller outside the model calls n.receive(msg) with a new message that
\* carries data.
ReceiveData(n, data) ==
    /\ nextId < msgLimit
    /\ LET m == Message(nextId + 1, External, data)
           w0 == [World EXCEPT !.nextId = @ + 1,
                               !.created = Append(@, [op |-> "receive", node |-> n,
                                                      res |-> "called", ready |-> {},
                                                      data |-> data])]
       IN  Becomes(ReceiveSync(w0, n, m, External))

\* ---------------------------------------------------------------- dispatch
\* Node.dispatch, lines 154-156: called by the node's own code (a hook, a timer).
Dispatch(n) ==
    /\ nextId < msgLimit
    /\ Becomes(dispatchInternal(World, n, NoData))

\* ----------------------------------------------------------------- dispose
\* BaseParallelNode.disposeBase, lines 86-88, up to its first await: dispose()
\* is called on every child before any of them is awaited.
RECURSIVE DisposeEach(_, _)
DisposeEach(w, cs) ==
    IF cs = <<>> THEN w
    ELSE DisposeEach(dispose(w, Head(cs), OwnerDispose), Tail(cs))

disposeBase(w, n) ==
    DisposeEach([w EXCEPT !.hookPc[n].dispose = "children"], w.children[n])

\* The synchronous part of onDispose: ParallelNode.onDispose calls disposeBase
\* and ChainNode.onDispose has the same two steps.
onDispose(w, n) == IF Composite(w, n) THEN disposeBase(w, n) ELSE w

\* Node.disposeInternal, line 372: onDispose is invoked.
invokeOnDispose(w, n) ==
    onDispose([w EXCEPT !.disposePc[n] = "onDispose",
                        !.onDisposeCalls[n] = @ + 1], n)

\* Variant: dispose waits for the start only while the starting flag is set.
MustAwaitStartWhileStarting(w, n) == w.starting[n]

\* Node.disposeInternal, line 364: there is a start operation to wait for.
MustAwaitStart(w, n) == w.startPromise[n] # "none"

\* Node.disposeInternal, lines 362-372, up to its first await.
disposeInternal(w, n) ==
    IF MustAwaitStart(w, n)
    THEN [w EXCEPT !.disposePc[n] = "waitStart"]
    ELSE invokeOnDispose(w, n)

\* Variant: only a dispose still in progress is shared.
DisposeMemoizedWhilePending(w, n) == w.disposePromise[n] = "pending"

\* Node.dispose, line 347: a dispose operation exists already and is shared.
DisposeMemoized(w, n) == w.disposePromise[n] # "none"

\* Node.dispose, lines 346-360, up to its await.
dispose(w, n, k) ==
    LET w0 == [w EXCEPT !.disposeCall[n][k] = "waiting",
                        !.inFlightDispose = IF w.startPromise[n] = "pending"
                                            THEN @ \cup {n} ELSE @]
    IN  IF DisposeMemoized(w0, n) THEN w0
        ELSE disposeInternal([w0 EXCEPT !.disposed[n] = TRUE,
                                        !.aborted[n] = TRUE,
                                        !.inboundBuffer[n] = <<>>,
                                        !.outboundBuffer[n] = <<>>,
                                        !.disposePromise[n] = "pending"], n)

\* Variant: a teardown that fails leaves the node usable again.
afterOnDisposeRevived(w, n, hookOk) ==
    [w EXCEPT !.disposePc[n] = "settled",
              !.disposePromise[n] = IF hookOk THEN "ok" ELSE "hookFail",
              !.disposed[n] = hookOk,
              !.aborted[n] = hookOk]

\* Node.disposeInternal, line 372: onDispose has settled and so does disposePromise.
afterOnDispose(w, n, hookOk) ==
    [w EXCEPT !.disposePc[n] = "settled",
              !.disposePromise[n] = IF hookOk THEN "ok" ELSE "hookFail"]

\* Node.dispose on a node, call k made from outside.
Dispose(n, k) ==
    /\ disposeCall[n][k] = "idle"
    /\ \A j \in DisposeCalls : j < k => disposeCall[n][j] # "idle"
    /\ Becomes(dispose(World, n, k))

\* Node.disposeInternal, lines 366-372: 'await this.startPromise' resumes,
\* whether the start resolved or rejected, and onDispose is invoked.
DisposeAfterStart(n) ==
    /\ disposePc[n] = "waitStart"
    /\ Settled(startPromise[n])
    /\ Becomes(invokeOnDispose(World, n))

\* The onDispose hook of a leaf or of the bridge settles; the bridge's hook is
\* empty and cannot fail.
OnDisposeSettle(n, hookOk) ==
    /\ disposePc[n] = "onDispose"
    /\ kind[n] \in {"leaf", "bridge"}
    /\ kind[n] = "bridge" => hookOk
    /\ Becomes(afterOnDispose(World, n, hookOk))

\* Node.dispose, lines 347 and 359: 'return await this.disposePromise' resumes.
DisposeReturn(n, k) ==
    /\ disposeCall[n][k] = "waiting"
    /\ Settled(disposePromise[n])
    /\ Becomes([World EXCEPT !.disposeCall[n][k] = disposePromise[n]])

\* Variant: the bridge is disposed without waiting for the children.
DisposeBaseBridgeEarly(n) ==
    /\ hookPc[n].dispose = "children"
    /\ Becomes(dispose([World EXCEPT
           !.hookPc[n].dispose = "bridge",
           !.disposeCall = [x \in Nodes |->
               IF \E i \in DOMAIN children[n] : children[n][i] = x
               THEN [@[x] EXCEPT ![OwnerDispose] = disposePromise[x]] ELSE @[x]]],
         bridge[n], OwnerDispose))

\* BaseParallelNode.disposeBase, line 89: every child's dispose() has settled
\* (Promise.allSettled) and the bridge's dispose() is called.
DisposeBaseBridge(n) ==
    /\ hookPc[n].dispose = "children"
    /\ \A i \in DOMAIN children[n] : Settled(disposePromise[children[n][i]])
    /\ Becomes(dispose([World EXCEPT
           !.hookPc[n].dispose = "bridge",
           !.disposeCall = [x \in Nodes |->
               IF \E i \in DOMAIN children[n] : children[n][i] = x
               THEN [@[x] EXCEPT ![OwnerDispose] = disposePromise[x]] ELSE @[x]]],
         bridge[n], OwnerDispose))

\* BaseParallelNode.disposeBase, lines 89-97: the bridge's dispose() has
\* settled; the failures are logged and onDispose returns.
DisposeBaseDone(n) ==
    /\ hookPc[n].dispose = "bridge"
    /\ Settled(disposePromise[bridge[n]])
    /\ Becomes(afterOnDispose([World EXCEPT
           !.hookPc[n].dispose = "done",
           !.disposeCall[bridge[n]][OwnerDispose] = disposePromise[bridge[n]]], n, TRUE))

\* ------------------------------------------------------------ build time
Has(seq, x) == \E i \in DOMAIN seq : seq[i] = x

\* Array.splice(indexOf(x), 1): the sequence without the first occurrence of x.
Splice(seq, x) ==
    IF ~Has(seq, x) THEN seq
    ELSE LET i == CHOOSE i \in DOMAIN seq : seq[i] = x /\ \A j \in 1..(i - 1) : seq[j] # x
         IN  SubSeq(seq, 1, i - 1) \o SubSeq(seq, i + 1, Len(seq))

\* Node.register, lines 228-234.
register(w, n, c) ==
    IF Has(w.consumers[n], c) THEN w ELSE [w EXCEPT !.consumers[n] = Append(@, c)]

\* Variant: the consumer stays registered.
unregisterKeeps(w, n, c) == w

\* Node.unregister, lines 239-245.
unregister(w, n, c) == [w EXCEPT !.consumers[n] = Splice(@, c)]

\* Variant: the assertion looks at the disposed state only.
assertBuildTimeNotDisposed(w, n) == ~Unusable(w, n)

\* Node.assertBuildTime, lines 382-393: TRUE when the assertion passes.
assertBuildTime(w, n) == ~Unusable(w, n) /\ ~w.started[n] /\ ~w.starting[n]

\* BaseParallelNode.addChildBuildTime, lines 43-44, and wireChild: after the
\* assertion, the child is appended and the bridge registered with it.
addChildBuildTime(w, n, c) ==
    register([w EXCEPT !.children[n] = Append(@, c)], c, w.bridge[n])

\* Variant: the previous tail stays registered with the bridge.
addNodeInternalKeepsTail(w, n, c) ==
    IF w.head[n] = ""
    THEN register([w EXCEPT !.head[n] = c, !.tail[n] = c,
                            !.children[n] = Append(@, c)], c, w.bridge[n])
    ELSE LET prevTail == w.tail[n]
             w2 == register(w, prevTail, c)
             w3 == [w2 EXCEPT !.tail[n] = c, !.children[n] = Append(@, c)]
         IN  register(w3, c, w.bridge[n])

\* ChainNode.addNodeInternal, lines 62-92.
addNodeInternal(w, n, c) ==
    IF w.head[n] = ""
    THEN register([w EXCEPT !.head[n] = c, !.tail[n] = c,
                            !.children[n] = Append(@, c)], c, w.bridge[n])
    ELSE LET prevTail == w.tail[n]
             w1 == unregister(w, prevTail, w.bridge[n])
             w2 == register(w1, prevTail, c)
             w3 == [w2 EXCEPT !.tail[n] = c, !.children[n] = Append(@, c)]
         IN  register(w3, c, w.bridge[n])

\* ChainNode.node (lines 38-42) and ParallelNode.node / ParallelProductNode.node
\* (addChildBuildTime, lines 41-45): the assertion first; when it throws,
\* nothing has been changed.
node(w, n, c) ==
    IF ~assertBuildTime(w, n) THEN w
    ELSE IF w.kind[n] = "chain" THEN addNodeInternal(w, n, c)
    ELSE addChildBuildTime(w, n, c)

\* History: the call and whether it raised.
Logged(w, op, n, c, raised) ==
    [w EXCEPT !.buildLog = Append(@, [op |-> op, node |-> n, arg |-> c, raised |-> raised])]

\* n.register(c), called from outside; the method has no way to raise.
Register(n, c) ==
    /\ Len(buildLog) < MaxBuildOps
    /\ Becomes(Logged(register(World, n, c), "register", n, c, FALSE))

\* n.unregister(c), called from outside.
Unregister(n, c) ==
    /\ Len(buildLog) < MaxBuildOps
    /\ Becomes(Logged(unregister(World, n, c), "unregister", n, c, FALSE))

\* composite.node(c), called from outside.
AddChild(n, c) ==
    /\ Len(buildLog) < MaxBuildOps
    /\ Composite(World, n)
    /\ Becomes(Logged(node(World, n, c), "node", n, c, ~assertBuildTime(World, n)))

\* ---------------------------------------------------------- Pipeline.build
\* Node.getManagedNodes: the children of a composite, nothing for other nodes.
ManagedNodes(w, n) == IF Composite(w, n) THEN w.children[n] ELSE <<>>

RECURSIVE collect(_, _, _, _)
RECURSIVE collectEach(_, _, _, _)

\* Variant: a child found under a second composite changes owner.
collectLastOwner(w, st, n, own) ==
    IF st.err # "none" THEN st
    ELSE LET st1 == IF own = "" THEN st ELSE [st EXCEPT !.ownerOf[n] = own]
         IN  IF Has(st1.all, n) THEN st1
             ELSE collectEach(w, [st1 EXCEPT !.all = Append(@, n)], ManagedNodes(w, n), n)

\* Pipeline.collect, lines 140-158, over the locals allNodes ('all', in
\* insertion order) and ownerOf; 'err' is the error thrown, if any.
collect(w, st, n, own) ==
    IF st.err # "none" THEN st
    ELSE IF own # "" /\ st.ownerOf[n] \notin {"", own}
    THEN [st EXCEPT !.err = "multipleOwners"]
    ELSE LET st1 == IF own = "" THEN st ELSE [st EXCEPT !.ownerOf[n] = own]
         IN  IF Has(st1.all, n) THEN st1
             ELSE collectEach(w, [st1 EXCEPT !.all = Append(@, n)], ManagedNodes(w, n), n)

\* Variant: the children are collected without their owner.
collectEachNoOwner(w, st, ns, own) ==
    IF ns = <<>> THEN st
    ELSE collectEach(w, collect(w, st, Head(ns), ""), Tail(ns), own)

\* Pipeline.collect, lines 155-157: the loop over getManagedNodes().
collectEach(w, st, ns, own) ==
    IF ns = <<>> THEN st
    ELSE collectEach(w, collect(w, st, Head(ns), own), Tail(ns), own)

\* Pipeline.build, lines 89-93.
Collected(w) ==
    collectEach(w, [all |-> <<>>, ownerOf |-> [n \in Nodes |-> ""], err |-> "none"],
                w.roots, "")

RECURSIVE getUltimateAnchor(_, _, _)

\* Variant: every node is its own anchor.
getUltimateAnchorSelf(ownerOf, n, seen) == n

\* Pipeline.getUltimateAnchor, lines 160-167.  The loop does not end when the
\* owners form a cycle; the result is then "diverges".
getUltimateAnchor(ownerOf, n, seen) ==
    IF ownerOf[n] = "" THEN n
    ELSE IF ownerOf[n] \in seen THEN "diverges"
    ELSE getUltimateAnchor(ownerOf, ownerOf[n], seen \cup {ownerOf[n]})

\* new Set(array): the elements in order of first occurrence.
RECURSIVE Unique(_)
Unique(seq) ==
    IF seq = <<>> THEN <<>>
    ELSE LET init == Unique(SubSeq(seq, 1, Len(seq) - 1))
             x == seq[Len(seq)]
         IN  IF Has(init, x) THEN init ELSE Append(init, x)

\* array.filter(x => S.has(x)).
RECURSIVE Keep(_, _)
Keep(seq, S) ==
    IF seq = <<>> THEN <<>>
    ELSE (IF Head(seq) \in S THEN <<Head(seq)>> ELSE <<>>) \o Keep(Tail(seq), S)

RECURSIVE Flatten(_)
Flatten(seqs) == IF seqs = <<>> THEN <<>> ELSE Head(seqs) \o Flatten(Tail(seqs))

\* Pipeline.buildDependencyGraph, lines 190-211: the unique managed instance
\* of a class that some managed node depends on ("" when there is none).
Providers(w, all, c) == {all[i] : i \in {j \in DOMAIN all : w.ctor[all[j]] = c}}

Provider(w, all, c) ==
    IF Providers(w, all, c) = {} THEN "" ELSE CHOOSE n \in Providers(w, all, c) : TRUE

\* Variant: a dependency whose provider is missing is skipped, optional or not.
DependencyOfLenient(w, st, consumer) ==
    LET depCtor == w.dependsOn[w.ctor[consumer]]
        provider == Provider(w, st.all, depCtor)
        from == getUltimateAnchor(st.ownerOf, provider, {provider})
        to == getUltimateAnchor(st.ownerOf, consumer, {consumer})
    IN  IF depCtor = "" THEN [err |-> "none", edges |-> <<>>]
        ELSE IF provider = "" THEN [err |-> "none", edges |-> <<>>]
        ELSE IF provider = consumer THEN [err |-> "selfDependency", edges |-> <<>>]
        ELSE [err |-> "none", edges |-> IF from = to THEN <<>> ELSE << <<from, to>> >>]


\* Lines 214-243, one iteration: what the dependency of a managed node adds.
\* The result is an error, or the edges added (none or one).
DependencyOf(w, st, consumer) ==
    LET depCtor == w.dependsOn[w.ctor[consumer]]
        provider == Provider(w, st.all, depCtor)
        from == getUltimateAnchor(st.ownerOf, provider, {provider})
        to == getUltimateAnchor(st.ownerOf, consumer, {consumer})
    IN  IF depCtor = "" THEN [err |-> "none", edges |-> <<>>]
        ELSE IF provider = ""
        THEN [err |-> IF w.optional[w.ctor[consumer]] THEN "none" ELSE "missingProvider",
              edges |-> <<>>]
        ELSE IF provider = consumer THEN [err |-> "selfDependency", edges |-> <<>>]
        ELSE [err |-> "none", edges |-> IF from = to THEN <<>> ELSE << <<from, to>> >>]

\* Variant: a wiring edge runs from the producer's anchor to the consumer's.
WiringOfProducerFirst(w, st, producer) ==
    LET cs == Keep(w.consumers[producer], {st.all[i] : i \in DOMAIN st.all})
        pa == getUltimateAnchor(st.ownerOf, producer, {producer})
    IN  Flatten([i \in DOMAIN cs |->
            LET ca == getUltimateAnchor(st.ownerOf, cs[i], {cs[i]})
            IN  IF ca = pa THEN <<>> ELSE << <<pa, ca>> >>])


\* Variant: an edge is added also when the two ends have the same anchor.
WiringOfWithSelfEdges(w, st, producer) ==
    LET cs == Keep(w.consumers[producer], {st.all[i] : i \in DOMAIN st.all})
        pa == getUltimateAnchor(st.ownerOf, producer, {producer})
    IN  [i \in DOMAIN cs |-> <<getUltimateAnchor(st.ownerOf, cs[i], {cs[i]}), pa>>]

\* Lines 246-268, one producer: the edges its wiring adds, consumer's anchor
\* first.
WiringOf(w, st, producer) ==
    LET cs == Keep(w.consumers[producer], {st.all[i] : i \in DOMAIN st.all})
        pa == getUltimateAnchor(st.ownerOf, producer, {producer})
    IN  Flatten([i \in DOMAIN cs |->
            LET ca == getUltimateAnchor(st.ownerOf, cs[i], {cs[i]})
            IN  IF ca = pa THEN <<>> ELSE << <<ca, pa>> >>])

\* Pipeline.buildDependencyGraph, lines 174-271: the error thrown, if any,
\* and the edges in the order they are added, each once.
buildDependencyGraph(w, st) ==
    LET all == st.all
        used == {w.dependsOn[w.ctor[all[i]]] : i \in DOMAIN all} \ {""}
        deps == [i \in DOMAIN all |-> DependencyOf(w, st, all[i])]
        bad == {i \in DOMAIN all : deps[i].err # "none"}
    IN  IF \E c \in used : Cardinality(Providers(w, all, c)) > 1
        THEN [err |-> "multipleProviders", edges |-> <<>>]
        ELSE IF bad # {}
        THEN [err |-> deps[CHOOSE i \in bad : \A j \in bad : i <= j].err, edges |-> <<>>]
        ELSE [err |-> "none",
              edges |-> Unique(Flatten([i \in DOMAIN all |-> deps[i].edges])
                               \o Flatten([i \in DOMAIN all |-> WiringOf(w, st, all[i])]))]

\* edges.get(a): the targets of the edges out of a, in insertion order.
Outs(edges, a) ==
    Flatten([i \in DOMAIN edges |-> IF edges[i][1] = a THEN <<edges[i][2]>> ELSE <<>>])

InDegree(edges, a) == Cardinality({i \in DOMAIN edges : edges[i][2] = a})
OutDegree(edges, a) == Cardinality({i \in DOMAIN edges : edges[i][1] = a})

\* Pipeline.kahnTopoSort, lines 290-294: the inner loop over the edges out of
\* the node taken from the queue.
RECURSIVE Relax(_, _, _)
Relax(outs, q, indeg) ==
    IF outs = <<>> THEN [q |-> q, indeg |-> indeg]
    ELSE LET v == Head(outs)
             d == indeg[v] - 1
         IN  Relax(Tail(outs), IF d = 0 THEN Append(q, v) ELSE q, [indeg EXCEPT ![v] = d])

\* Lines 284-295: the loop over the queue.
RECURSIVE KahnLoop(_, _, _, _)
KahnLoop(q, out, indeg, edges) ==
    IF q = <<>> THEN out
    ELSE LET r == Relax(Outs(edges, Head(q)), Tail(q), indeg)
         IN  KahnLoop(r.q, Append(out, Head(q)), r.indeg, edges)

\* Variant: the sort returns what it could order and reports no cycle.
kahnTopoSortPartial(nodes, edges) ==
    LET S == {nodes[i] : i \in DOMAIN nodes}
        indeg == [a \in S |-> InDegree(edges, a)]
        out == KahnLoop(Keep(nodes, {a \in S : indeg[a] = 0}), <<>>, indeg, edges)
    IN  [err |-> "none", out |-> out, stuck |-> {}]


\* Pipeline.kahnTopoSort, lines 273-309.
kahnTopoSort(nodes, edges) ==
    LET S == {nodes[i] : i \in DOMAIN nodes}
        indeg == [a \in S |-> InDegree(edges, a)]
        out == KahnLoop(Keep(nodes, {a \in S : indeg[a] = 0}), <<>>, indeg, edges)
    IN  IF Len(out) # Len(nodes)
        THEN [err |-> "cycle", out |-> <<>>, stuck |-> S \ {out[i] : i \in DOMAIN out}]
        ELSE [err |-> "none", out |-> out, stuck |-> {}]

\* Pipeline.build, lines 88-128, as a function of the roots, the managed
\* children, the wiring and the declared dependencies: the error thrown, if
\* any, the anchors, the edges and the active anchors in start order.
Build(w) ==
    LET st == Collected(w)
        all == st.all
        Anchor(n) == getUltimateAnchor(st.ownerOf, n, {n})
        anchors == Unique([i \in DOMAIN all |-> Anchor(all[i])])
        rootAnchors == {Anchor(w.roots[i]) : i \in DOMAIN w.roots}
        keepAliveAnchors == {Anchor(n) : n \in w.keepAliveRoots}
        g == buildDependencyGraph(w, st)
        t == kahnTopoSort(anchors, g.edges)
        linked == {a \in Nodes : InDegree(g.edges, a) + OutDegree(g.edges, a) # 0}
        none == [err |-> "none", stuck |-> {}, all |-> all, ownerOf |-> st.ownerOf,
                 anchors |-> <<>>, edges |-> <<>>, topo |-> <<>>, active |-> <<>>]
    IN  IF st.err # "none" THEN [none EXCEPT !.err = st.err]
        ELSE IF Has(anchors, "diverges") THEN [none EXCEPT !.err = "diverges"]
        ELSE IF g.err # "none" THEN [none EXCEPT !.err = g.err, !.anchors = anchors]
        ELSE IF t.err # "none"
        THEN [none EXCEPT !.err = t.err, !.stuck = t.stuck, !.anchors = anchors,
                          !.edges = g.edges]
        ELSE [none EXCEPT !.anchors = anchors, !.edges = g.edges, !.topo = t.out,
                          !.active = Keep(t.out, rootAnchors \cup keepAliveAnchors \cup linked)]

\* Pipeline.build, lines 85-131: nothing when built already; built is set
\* only when the build has not thrown.
build(w) ==
    IF w.pBuilt \/ Build(w).err # "none" THEN w
    ELSE [w EXCEPT !.pBuilt = TRUE, !.activeTopo = Build(w).active]

\* The error the build() call of a Pipeline.start() throws ("none": it returns).
BuildError(w) == IF w.pBuilt THEN "none" ELSE Build(w).err

\* ------------------------------------------------------------ Pipeline.add
\* Pipeline.add, lines 30-43; the call throws when the Pipeline is started
\* and then changes nothing.  roots is a Set: a node added again keeps its
\* place.
add(w, n, keepAlive) ==
    IF w.pStarted THEN w
    ELSE [w EXCEPT !.keepAliveRoots = IF keepAlive THEN @ \cup {n} ELSE @,
                   !.roots = IF Has(@, n) THEN @ ELSE Append(@, n),
                   !.pBuilt = FALSE]

\* pipeline.add(n) or pipeline.add(n, {keepAlive: true}), called from outside.
PipelineAdd(n, keepAlive) ==
    /\ Len(buildLog) < MaxBuildOps
    /\ Becomes(Logged(add(World, n, keepAlive), "add", n,
                      IF keepAlive THEN "keepAlive" ELSE "", pStarted))


\* ---------------------------------------------------------- Pipeline.start
\* Variant: the awaiting call resumes only when the start has resolved.
StartCallSettledOnlyOk(w, x, k) == w.startPromise[x] = "ok"

\* The start() call k made on node x has settled, and its outcome.
StartCallSettled(w, x, k) ==
    w.startCall[x][k] = "cannotStart" \/ Settled(w.startPromise[x])

StartCallResult(w, x, k) ==
    IF w.startCall[x][k] = "cannotStart" THEN "cannotStart" ELSE w.startPromise[x]

\* Variant: start() does not look at the started flag.
AlreadyStartedNever(w) == FALSE

\* Pipeline.start, line 46.
AlreadyStarted(w) == w.pStarted

\* Pipeline.start, lines 53-57: the loop over activeTopo from the anchors
\* 'todo', up to the next await: start() is called on the first of them, or
\* the loop is over, started is set and the call resolves.
startLoop(w, k, todo, startedAnchors) ==
    IF todo = <<>>
    THEN [w EXCEPT !.pStarted = TRUE,
                   !.pStart[k] = [@ EXCEPT !.pc = "done", !.todo = <<>>,
                                           !.startedAnchors = startedAnchors,
                                           !.result = "ok"]]
    ELSE start([w EXCEPT !.pStart[k] = [@ EXCEPT !.pc = "start", !.todo = todo,
                                                 !.startedAnchors = startedAnchors]],
               Head(todo), k)

\* Pipeline.start, lines 45-54, up to its first await.  When the loop of
\* getUltimateAnchor does not end, build() does not return and the call stays
\* in it ("diverged").
pipelineStart(w, k) ==
    IF AlreadyStarted(w)
    THEN [w EXCEPT !.pStart[k] = [@ EXCEPT !.pc = "done", !.result = "ok"]]
    ELSE IF BuildError(w) = "diverges"
    THEN [w EXCEPT !.pStart[k].pc = "diverged"]
    ELSE IF BuildError(w) # "none"
    THEN [w EXCEPT !.pStart[k] = [@ EXCEPT !.pc = "done", !.result = BuildError(w),
                                           !.error = BuildError(w),
                                           !.stuck = Build(w).stuck]]
    ELSE startLoop(build(w), k, build(w).activeTopo, <<>>)

\* Pipeline.start, lines 60-65: the rollback loop from the anchors 'undo', up
\* to the next await: dispose() is called on the first of them, or the loop is
\* over and the original error is thrown.
rollbackLoop(w, k, undo) ==
    IF undo = <<>>
    THEN [w EXCEPT !.pStart[k] = [@ EXCEPT !.pc = "done", !.undo = <<>>,
                                           !.result = w.pStart[k].error]]
    ELSE dispose([w EXCEPT !.pStart[k] = [@ EXCEPT !.pc = "rollback", !.undo = undo]],
                 Head(undo), PipeRollback(k))

\* Pipeline.start, lines 54-60: 'await a.start()' resumes.
startAwaited(w, k) ==
    LET a == Head(w.pStart[k].todo)
        res == StartCallResult(w, a, k)
        w1 == [w EXCEPT !.startCall[a][k] = res]
    IN  IF res = "ok"
        THEN startLoop(w1, k, Tail(w.pStart[k].todo), Append(w.pStart[k].startedAnchors, a))
        ELSE rollbackLoop([w1 EXCEPT !.pStart[k].error = res], k,
                          Reverse(w.pStart[k].startedAnchors))

\* Variant: a rollback dispose that rejects ends the rollback.
rollbackAwaitedPropagates(w, k) ==
    LET a == Head(w.pStart[k].undo)
        w1 == [w EXCEPT !.disposeCall[a][PipeRollback(k)] = w.disposePromise[a]]
    IN  IF w.disposePromise[a] = "ok"
        THEN rollbackLoop(w1, k, Tail(w.pStart[k].undo))
        ELSE [w1 EXCEPT !.pStart[k] = [@ EXCEPT !.pc = "done", !.undo = <<>>,
                                                !.result = w.disposePromise[a]]]


\* Pipeline.start, lines 61-63: 'await a.dispose()' of the rollback resumes;
\* a rejection is swallowed.
rollbackAwaited(w, k) ==
    LET a == Head(w.pStart[k].undo)
    IN  rollbackLoop([w EXCEPT !.disposeCall[a][PipeRollback(k)] = w.disposePromise[a]],
                     k, Tail(w.pStart[k].undo))

\* Pipeline.start(), call k made from outside.
PipelineStart(k) ==
    /\ pStart[k].pc = "idle"
    /\ \A j \in StartCalls : j < k => pStart[j].pc # "idle"
    /\ Becomes(pipelineStart(World, k))

PipelineStartStep(k) ==
    /\ pStart[k].pc = "start"
    /\ StartCallSettled(World, Head(pStart[k].todo), k)
    /\ Becomes(startAwaited(World, k))

PipelineRollbackStep(k) ==
    /\ pStart[k].pc = "rollback"
    /\ Settled(disposePromise[Head(pStart[k].undo)])
    /\ Becomes(rollbackAwaited(World, k))

\* -------------------------------------------------------- Pipeline.dispose
\* Pipeline.dispose, line 71: dispose() is called on every root before any
\* of them is awaited.
RECURSIVE DisposeAll(_, _, _)
DisposeAll(w, ns, k) ==
    IF ns = <<>> THEN w ELSE DisposeAll(dispose(w, Head(ns), k), Tail(ns), k)

\* Pipeline.dispose, lines 77-82: the loop from the anchors 'todo', up to the
\* next await, or to the end, where started is cleared.
disposeLoop(w, k, todo) ==
    IF todo = <<>>
    THEN [w EXCEPT !.pStarted = FALSE,
                   !.pDispose[k] = [@ EXCEPT !.pc = "done", !.todo = <<>>, !.result = "ok"]]
    ELSE dispose([w EXCEPT !.pDispose[k] = [@ EXCEPT !.pc = "dispose", !.todo = todo]],
                 Head(todo), k)

\* Pipeline.dispose, lines 69-79, up to its first await.
pipelineDispose(w, k) ==
    LET w0 == [w EXCEPT !.pDispose[k].during =
                   {j \in DOMAIN w.pStart : w.pStart[j].pc \in {"start", "rollback"}}]
    IN  IF ~w.pBuilt
        THEN DisposeAll([w0 EXCEPT !.pDispose[k] = [@ EXCEPT !.pc = "roots", !.todo = w.roots]],
                        w.roots, k)
        ELSE disposeLoop(w0, k, Reverse(w.activeTopo))

\* Pipeline.dispose(), call k made from outside.
PipelineDispose(k) ==
    /\ pDispose[k].pc = "idle"
    /\ \A j \in DisposeCalls : j < k => pDispose[j].pc # "idle"
    /\ Becomes(pipelineDispose(World, k))

\* Variant: a dispose() that rejects ends Pipeline.dispose with its error.
disposeAwaitedPropagates(w, k) ==
    LET a == Head(w.pDispose[k].todo)
        w1 == [w EXCEPT !.disposeCall[a][k] = w.disposePromise[a]]
    IN  IF w.disposePromise[a] = "ok"
        THEN disposeLoop(w1, k, Tail(w.pDispose[k].todo))
        ELSE [w1 EXCEPT !.pDispose[k] = [@ EXCEPT !.pc = "done", !.todo = <<>>,
                                                  !.result = w.disposePromise[a]]]

\* Pipeline.dispose, lines 78-80: 'await a.dispose()' resumes; a rejection
\* is swallowed.
disposeAwaited(w, k) ==
    LET a == Head(w.pDispose[k].todo)
    IN  disposeLoop([w EXCEPT !.disposeCall[a][k] = w.disposePromise[a]],
                    k, Tail(w.pDispose[k].todo))

PipelineDisposeStep(k) ==
    /\ pDispose[k].pc = "dispose"
    /\ Settled(disposePromise[Head(pDispose[k].todo)])
    /\ Becomes(disposeAwaited(World, k))

\* Pipeline.dispose, lines 71-73: Promise.allSettled over the roots resumes.
PipelineDisposeRoots(k) ==
    /\ pDispose[k].pc = "roots"
    /\ \A i \in DOMAIN pDispose[k].todo : Settled(disposePromise[pDispose[k].todo[i]])
    /\ Becomes([World EXCEPT
           !.pStarted = FALSE,
           !.pDispose[k] = [@ EXCEPT !.pc = "done", !.todo = <<>>, !.result = "ok"],
           !.disposeCall = [x \in Nodes |->
               IF Has(pDispose[k].todo, x)
               THEN [@[x] EXCEPT ![k] = disposePromise[x]] ELSE @[x]]])

\* -------------------------------------------------------------------- Init
\* Node constructor and field initialisers, lines 61-90.
InitNode ==
    /\ started = [n \in Nodes |-> FALSE]
    /\ starting = [n \in Nodes |-> FALSE]
    /\ disposed = [n \in Nodes |-> FALSE]
    /\ aborted = [n \in Nodes |-> FALSE]
    /\ startPromise = [n \in Nodes |-> "none"]
    /\ disposePromise = [n \in Nodes |-> "none"]
    /\ inboundBuffer = [n \in Nodes |-> <<>>]
    /\ outboundBuffer = [n \in Nodes |-> <<>>]
    /\ startPc = [n \in Nodes |-> "none"]
    /\ batch = [n \in Nodes |-> <<>>]
    /\ head = [n \in Nodes |-> ""]
    /\ tail = [n \in Nodes |-> ""]
    /\ flushWait = [n \in Nodes |-> 0]
    /\ disposePc = [n \in Nodes |-> "none"]
    /\ hookPc = [n \in Nodes |-> [start |-> IdleHook, dispose |-> "none"]]
    /\ running = [n \in Nodes |-> {}]
    /\ startCall = [n \in Nodes |-> [k \in AllStartCalls |-> "idle"]]
    /\ disposeCall = [n \in Nodes |-> [k \in AllDisposeCalls |-> "idle"]]
    /\ nextId = 0
    /\ recvLog = [n \in Nodes |-> <<>>]
    /\ bufferedLog = [n \in Nodes |-> <<>>]
    /\ invoked = <<>>
    /\ created = <<>>
    /\ hookFailed = {}
    /\ onStartCalls = [n \in Nodes |-> 0]
    /\ onDisposeCalls = [n \in Nodes |-> 0]
    /\ liveStart = [n \in Nodes |-> <<>>]
    /\ inFlightDispose = {}
    /\ buildLog = <<>>
    /\ pBuilt = FALSE
    /\ pStarted = FALSE
    /\ activeTopo = <<>>
    /\ pStart = [k \in StartCalls |-> IdleStart]
    /\ pDispose = [k \in DisposeCalls |-> IdleDispose]

\* No Pipeline: nothing is registered with one and no class declares a dependency.
NoPipeline ==
    /\ ctor = [n \in Nodes |-> n]
    /\ dependsOn = [c \in Nodes |-> ""]
    /\ optional = [c \in Nodes |-> FALSE]
    /\ roots = <<>>
    /\ keepAliveRoots = {}

\* Leaf nodes without wiring.
NoWiring ==
    /\ kind = [n \in Nodes |-> "leaf"]
    /\ consumers = [n \in Nodes |-> <<>>]
    /\ children = [n \in Nodes |-> <<>>]
    /\ bridge = [n \in Nodes |-> ""]
    /\ owner = [n \in Nodes |-> ""]

\* ------------------------------------------------------------- single node
Init ==
    /\ InitNode
    /\ NoPipeline
    /\ NoWiring
    /\ msgLimit = MaxMsgs

\* The node whose lifecycle the single-node specification exercises.
Subject == "p"

Next ==
    \/ \E k \in StartCalls : Start(Subject, k)
    \/ \E ok \in BOOLEAN : OnStartSettle(Subject, ok)
    \/ FlushInbound(Subject)
    \/ StartFinish(Subject)
    \/ \E k \in StartCalls : StartReturn(Subject, k)
    \/ \E ok \in BOOLEAN : OnReceiveSettle(Subject, ok)
    \/ Receive(Subject)
    \/ Dispatch(Subject)
    \/ \E k \in DisposeCalls : Dispose(Subject, k)
    \/ DisposeAfterStart(Subject)
    \/ \E ok \in BOOLEAN : OnDisposeSettle(Subject, ok)
    \/ \E k \in DisposeCalls : DisposeReturn(Subject, k)

Spec == Init /\ [][Next]_vars

\* ---------------------------------------------------- producer -> consumer
\* One wiring edge: p.register(c1), both nodes driven through their lifecycle
\* by one start() and one dispose() call each.
InitEdge ==
    /\ InitNode
    /\ NoPipeline
    /\ msgLimit = MaxEdgeMsgs
    /\ kind = [n \in Nodes |-> "leaf"]
    /\ consumers = [n \in Nodes |-> IF n = "p" THEN <<"c1">> ELSE <<>>]
    /\ children = [n \in Nodes |-> <<>>]
    /\ bridge = [n \in Nodes |-> ""]
    /\ owner = [n \in Nodes |-> ""]

EdgeNodes == {"p", "c1"}

NextEdge ==
    \/ \E n \in EdgeNodes : Start(n, 1)
    \/ \E n \in EdgeNodes, ok \in BOOLEAN : OnStartSettle(n, ok)
    \/ \E n \in EdgeNodes : FlushInbound(n)
    \/ \E n \in EdgeNodes : StartFinish(n)
    \/ \E n \in EdgeNodes : StartReturn(n, 1)
    \/ \E ok \in BOOLEAN : OnReceiveSettle("c1", ok)
    \/ Dispatch("p")
    \/ \E n \in EdgeNodes : Dispose(n, 1)
    \/ \E n \in EdgeNodes : DisposeAfterStart(n)
    \/ \E n \in EdgeNodes, ok \in BOOLEAN : OnDisposeSettle(n, ok)
    \/ \E n \in EdgeNodes : DisposeReturn(n, 1)

SpecEdge == InitEdge /\ [][NextEdge]_vars

\* ------------------------------------------------------------------ fan-out
\* One source with two targets, in the two shapes the repository has: a node
\* with two registered consumers (p.register(c1); p.register(c2)), and a
\* ParallelNode with two children (p.node(c1).node(c2)), whose constructor
\* creates the bridge b and whose wireChild registers b with each child.
InitFan ==
    /\ InitNode
    /\ NoPipeline
    /\ msgLimit = MaxFanMsgs
    /\ \E par \in BOOLEAN :
        /\ kind = [n \in Nodes |-> IF par /\ n = "p" THEN "parallel"
                                   ELSE IF par /\ n = "b" THEN "bridge" ELSE "leaf"]
        /\ consumers = [n \in Nodes |->
               IF par THEN (IF n \in {"c1", "c2"} THEN <<"b">> ELSE <<>>)
               ELSE (IF n = "p" THEN <<"c1", "c2">> ELSE <<>>)]
        /\ children = [n \in Nodes |-> IF par /\ n = "p" THEN <<"c1", "c2">> ELSE <<>>]
        /\ bridge = [n \in Nodes |-> IF par /\ n = "p" THEN "b" ELSE ""]
        /\ owner = [n \in Nodes |-> IF par /\ n = "b" THEN "p" ELSE ""]

FanNodes == {"p", "c1", "c2"}

\* The environment of the fan-out specification: the source is started from
\* outside, the targets of a plain node are started from outside and those of
\* a ParallelNode by its startBase; any target may be disposed from outside at
\* any time, the ParallelNode too; the message enters by dispatch() of the
\* plain node and by receive() on the ParallelNode.  The callers of start()
\* and dispose() are not resumed.  An onReceive hook of a target stays pending
\* or returns; a hook that throws is exercised on the producer -> consumer edge.

NextFan ==
    \/ \E n \in FanNodes : (n = "p" \/ kind["p"] = "leaf") /\ Start(n, 1)
    \/ \E n \in Nodes, ok \in BOOLEAN : OnStartSettle(n, ok)
    \/ \E n \in Nodes : FlushInbound(n)
    \/ \E n \in Nodes : StartFinish(n)
    \/ StartBaseStep("p")
    \/ RollbackStep("p")
    \/ \E n \in {"c1", "c2"} : OnReceiveSettle(n, TRUE)
    \/ kind["p"] = "parallel" /\ Receive("p")
    \/ kind["p"] = "leaf" /\ Dispatch("p")
    \/ \E n \in FanNodes : (n # "p" \/ kind["p"] = "parallel") /\ Dispose(n, 1)
    \/ \E n \in Nodes : DisposeAfterStart(n)
    \/ \E n \in Nodes, ok \in BOOLEAN : OnDisposeSettle(n, ok)
    \/ DisposeBaseBridge("p")
    \/ DisposeBaseDone("p")

SpecFan == InitFan /\ [][NextFan]_vars

\* -------------------------------------------------------------- build time
\* A composite p (ChainNode or ParallelNode) with its bridge b, no child yet,
\* and two plain nodes.  Children are added and wiring is changed from outside
\* at any time of p's life; p is started and disposed once from outside and
\* starts and disposes the children it has.  No message is sent.
InitBuild ==
    /\ InitNode
    /\ NoPipeline
    /\ msgLimit = 0
    /\ \E k \in {"parallel", "chain"} :
           kind = [n \in Nodes |-> IF n = "p" THEN k ELSE IF n = "b" THEN "bridge" ELSE "leaf"]
    /\ consumers = [n \in Nodes |-> <<>>]
    /\ children = [n \in Nodes |-> <<>>]
    /\ bridge = [n \in Nodes |-> IF n = "p" THEN "b" ELSE ""]
    /\ owner = [n \in Nodes |-> IF n = "b" THEN "p" ELSE ""]

\* The wiring calls made from outside: producer and consumer.
BuildEdges == {<<"p", "c1">>, <<"c1", "c2">>}

NextBuild ==
    \/ \E c \in {"c1", "c2"} : AddChild("p", c)
    \/ \E e \in BuildEdges : Register(e[1], e[2])
    \/ \E e \in BuildEdges : Unregister(e[1], e[2])
    \/ Start("p", 1)
    \/ \E n \in Nodes, ok \in BOOLEAN : OnStartSettle(n, ok)
    \/ \E n \in Nodes : FlushInbound(n)
    \/ \E n \in Nodes : StartFinish(n)
    \/ StartBaseStep("p")
    \/ RollbackStep("p")
    \/ Dispose("p", 1)
    \/ \E n \in Nodes : DisposeAfterStart(n)
    \/ \E n \in Nodes, ok \in BOOLEAN : OnDisposeSettle(n, ok)
    \/ DisposeBaseBridge("p")
    \/ DisposeBaseDone("p")

SpecBuild == InitBuild /\ [][NextBuild]_vars

\* ------------------------------------------------------- Pipeline: topology
\* Three plain nodes of three classes, some of them added to a Pipeline in
\* some order, wired to each other by register() and declaring dependencies
\* by class in any way that takes at most MaxLinks declarations; then one
\* Pipeline.start() call.  An onStart or onDispose hook returns or throws.
TopoNodes == {"p", "c1", "c2"}

\* The sequences without repetition over S.
Orders(S) ==
    {s \in UNION {[1..n -> S] : n \in 0..Cardinality(S)} :
        \A i, j \in DOMAIN s : i # j => s[i] # s[j]}

\* The number of register() calls and dependency declarations made.
Links(cons, deps) ==
    Len(cons["p"]) + Len(cons["c1"]) + Len(cons["c2"])
    + Cardinality({c \in TopoNodes : deps[c] # ""})

InitTopo ==
    /\ InitNode
    /\ msgLimit = 0
    /\ kind = [n \in Nodes |-> "leaf"]
    /\ children = [n \in Nodes |-> <<>>]
    /\ bridge = [n \in Nodes |-> ""]
    /\ owner = [n \in Nodes |-> ""]
    /\ ctor = [n \in Nodes |-> n]
    /\ optional = [c \in Nodes |-> FALSE]
    /\ keepAliveRoots = {}
    /\ roots \in Orders(TopoNodes)
    /\ \E cons \in [TopoNodes -> Orders(TopoNodes)], deps \in [TopoNodes -> TopoNodes \cup {""}] :
        /\ \A n \in TopoNodes : ~Has(cons[n], n) /\ deps[n] # n
        /\ Links(cons, deps) <= MaxLinks
        /\ consumers = [n \in Nodes |-> IF n \in TopoNodes THEN cons[n] ELSE <<>>]
        /\ dependsOn = [n \in Nodes |-> IF n \in TopoNodes THEN deps[n] ELSE ""]

NextTopo ==
    \/ PipelineStart(1)
    \/ PipelineStartStep(1)
    \/ PipelineRollbackStep(1)
    \/ \E n \in TopoNodes, ok \in BOOLEAN : OnStartSettle(n, ok)
    \/ \E n \in TopoNodes : FlushInbound(n)
    \/ \E n \in TopoNodes : StartFinish(n)
    \/ \E n \in TopoNodes : DisposeAfterStart(n)
    \/ \E n \in TopoNodes, ok \in BOOLEAN : OnDisposeSettle(n, ok)

SpecTopo == InitTopo /\ [][NextTopo]_vars

\* ------------------------------------------------------------------ claims
Done(c) == c \notin {"idle", "waiting"}

\* The message ids of the entries of an onReceive log.
RECURSIVE Ids(_)
Ids(log) == IF log = <<>> THEN <<>> ELSE <<Head(log).id>> \o Ids(Tail(log))

RECURSIVE LogMsgs(_)
LogMsgs(log) == IF log = <<>> THEN <<>> ELSE <<Head(log).msg>> \o LogMsgs(Tail(log))

\* The subsequence of a sequence of ids whose elements are in S.
RECURSIVE Restrict(_, _)
Restrict(ids, S) ==
    IF ids = <<>> THEN <<>>
    ELSE (IF Head(ids) \in S THEN <<Head(ids)>> ELSE <<>>) \o Restrict(Tail(ids), S)

\* The elements of a set of numbers in increasing order.
RECURSIVE Ascending(_)
Ascending(S) ==
    IF S = {} THEN <<>>
    ELSE LET lo == CHOOSE x \in S : \A y \in S : x <= y
         IN  <<lo>> \o Ascending(S \ {lo})

Range(f) == {f[x] : x \in DOMAIN f}

\* C1: whatever dispose() calls are made on a node, before, during or after
\* its start, onDispose runs at most once, it has run exactly once by the
\* time the dispose operation or any dispose() call has settled, and every
\* settled dispose() call has the outcome of the teardown (all resolved, or
\* all rejected with the failure of onDispose).
C1_DisposeOnce ==
    \A n \in Nodes :
        /\ onDisposeCalls[n] <= 1
        /\ Settled(disposePromise[n]) => onDisposeCalls[n] = 1
        /\ \A k \in AllDisposeCalls :
               Done(disposeCall[n][k]) =>
                   /\ onDisposeCalls[n] = 1
                   /\ disposeCall[n][k] \in {"ok", "hookFail"}
                   /\ \A j \in AllDisposeCalls :
                          Done(disposeCall[n][j]) => disposeCall[n][j] = disposeCall[n][k]

\* Two dispose() calls, the first issued while the start was in flight, have
\* both been rejected with the teardown's failure.
C1_Witness ==
    /\ "p" \in inFlightDispose
    /\ \A k \in DisposeCalls : disposeCall["p"][k] = "hookFail"

\* C2: onStart is invoked at most once per node, also after a failed start,
\* and every start() call issued while the node was not disposed settles
\* with the outcome of the first such call.
C2_StartOnce ==
    \A n \in Nodes :
        /\ onStartCalls[n] <= 1
        /\ \A i \in DOMAIN liveStart[n] :
               LET first == startCall[n][liveStart[n][1]]
                   this == startCall[n][liveStart[n][i]]
               IN  /\ this # "idle"
                   /\ Done(this) => this \in {"ok", "hookFail", "disposedDuringStart"}
                   /\ (Done(this) /\ Done(first)) => this = first

\* A second start() call was issued on a live node and both calls were
\* rejected with the failure of the one onStart run.
C2_Witness ==
    /\ Len(liveStart["p"]) = MaxStartCalls
    /\ \A k \in StartCalls : startCall["p"][k] = "hookFail"
    /\ onStartCalls["p"] = 1
    /\ ~disposed["p"]

\* C3: when dispose() is called on a node whose start operation is in flight
\* (onStart pending, or one of the two flushes under way), the start operation
\* rejects and no start() call on that node ever resolves successfully; the
\* start operation never resolves on a disposed node.
C3_DisposeFailsStart ==
    \A n \in Nodes :
        /\ n \in inFlightDispose =>
               /\ startPromise[n] \in {"pending", "hookFail", "disposedDuringStart"}
               /\ \A k \in AllStartCalls : startCall[n][k] # "ok"
        /\ (startPc[n] # "settled" /\ disposed[n]) => startPromise[n] # "ok"

\* onStart succeeded, dispose() came during the inbound flush, and the start()
\* call was rejected.
C3_Witness ==
    /\ "p" \in inFlightDispose
    /\ started["p"]
    /\ recvLog["p"] # <<>>
    /\ startCall["p"][1] = "disposedDuringStart"

\* C4: once onDispose has been invoked on a node its start operation is not
\* in flight, and never is afterwards: a dispose() issued during a start
\* waits for the start operation (onStart and both flushes) to settle, and
\* onStart is not invoked after onDispose.
C4_DisposeAfterStart ==
    \A n \in Nodes :
        onDisposeCalls[n] > 0 => /\ startPc[n] \in {"none", "settled"}
                                 /\ startPromise[n] # "pending"
                                 /\ ~starting[n]

\* dispose() was called while the start was in flight and onDispose has been
\* invoked after the start operation settled.
C4_Witness ==
    /\ "p" \in inFlightDispose
    /\ onDisposeCalls["p"] = 1
    /\ onStartCalls["p"] = 1

\* C5: when the start of a node has succeeded, the messages receive()
\* buffered during the start have been passed to onReceive exactly once each
\* and in arrival order, every one of these invocations was made after
\* onStart completed and before the start resolved, and has completed.
C5_BufferedInOrder ==
    \A n \in Nodes :
        startPromise[n] = "ok" =>
            LET flushed == {i \in DOMAIN recvLog[n] : recvLog[n][i].by = n}
            IN  /\ [i \in 1..Cardinality(flushed) |->
                       recvLog[n][Ascending(flushed)[i]].msg] = bufferedLog[n]
                /\ \A i \in flushed :
                       /\ recvLog[n][i].phase \in {"flushOut", "flushIn"}
                       /\ i \notin running[n]

\* Two messages were buffered during a start that has succeeded.
C5_Witness ==
    /\ startPromise["p"] = "ok"
    /\ Len(bufferedLog["p"]) >= 2

\* The ids of the messages passed to onReceive of node c, in invocation order.
Seen(c) == Ids(LogMsgs(recvLog[c]))

\* The messages a ready node dispatched while consumer c was ready.
SentReady(c) == {id \in DOMAIN created : c \in created[id].ready}

\* C6: the messages a producer dispatched while it and its consumer had both
\* finished start() and were not disposed are passed to the consumer's
\* onReceive in dispatch order, each exactly once.
C6_DispatchOrder ==
    \A c \in Nodes : Restrict(Seen(c), SentReady(c)) = Ascending(SentReady(c))

\* Two messages were dispatched over the edge while both ends were ready.
C6_Witness == Cardinality(SentReady("c1")) >= 2

IsReceiveCall(n) ==
    /\ Len(created') = Len(created) + 1
    /\ created'[Len(created')].op = "receive"
    /\ created'[Len(created')].node = n

\* C8: receive(msg) fails and leaves buffer and hook alone on a disposed or
\* aborted node; on a node whose start is in flight and that is not yet
\* started it appends msg to the inbound buffer, succeeds and does not invoke
\* onReceive; on a node that is neither started nor starting it fails; on a
\* started node it invokes onReceive with msg.
C8_ReceiveByState ==
    [][\A n \in Nodes :
          IsReceiveCall(n) =>
              LET id == Len(created')
                  out == invoked'[<<n, id, External>>]
                  quiet == recvLog'[n] = recvLog[n] /\ running'[n] = running[n]
              IN  /\ Unusable(World, n) =>
                         /\ out \in {"disposed", "aborted"}
                         /\ quiet /\ inboundBuffer'[n] = inboundBuffer[n]
                  /\ (~Unusable(World, n) /\ ~started[n] /\ startPromise[n] = "pending") =>
                         /\ out = "buffered"
                         /\ quiet
                         /\ inboundBuffer'[n] = Append(inboundBuffer[n], Msg(id, External))
                  /\ (~Unusable(World, n) /\ ~started[n] /\ startPromise[n] # "pending") =>
                         /\ out = "notStarted"
                         /\ quiet /\ inboundBuffer'[n] = inboundBuffer[n]
                  /\ (~Unusable(World, n) /\ started[n]) =>
                         /\ out = "pending"
                         /\ Len(recvLog'[n]) = Len(recvLog[n]) + 1
                         /\ recvLog'[n][Len(recvLog'[n])].msg = Msg(id, External)
                         /\ inboundBuffer'[n] = inboundBuffer[n]
      ]_vars

\* One receive() was buffered during the start; the start failed and a second
\* receive() was refused.
C8_Witness ==
    /\ startPromise["p"] = "hookFail"
    /\ \E i, j \in DOMAIN created :
           /\ <<"p", i, External>> \in DOMAIN invoked
           /\ <<"p", j, External>> \in DOMAIN invoked
           /\ invoked[<<"p", i, External>>] = "buffered"
           /\ invoked[<<"p", j, External>>] = "notStarted"

\* The fields of a node.
NodeState(n) ==
    <<started[n], starting[n], disposed[n], aborted[n], startPromise[n],
      disposePromise[n], inboundBuffer[n], outboundBuffer[n], startPc[n],
      disposePc[n], consumers[n]>>

\* C9: when onReceive fails for a message a producer dispatched, the
\* receive() call resolves successfully all the same, the node stays started
\* and the step changes nothing of the producer.
C9_HookFailureContained ==
    /\ [](\A f \in hookFailed :
             LET e == recvLog[f[1]][f[2]]
             IN  /\ invoked[<<f[1], e.msg.id, e.by>>] = "ok"
                 /\ started[f[1]])
    /\ [][\A f \in hookFailed' \ hookFailed :
             \A q \in Nodes \ {f[1]} : NodeState(q)' = NodeState(q)]_vars

\* onReceive of the consumer failed for a message of the producer, and the
\* producer is started and not disposed.
C9_Witness ==
    /\ \E f \in hookFailed : f[1] = "c1" /\ recvLog["c1"][f[2]].by = "p"
    /\ started["p"] /\ ~disposed["p"]
    /\ started["c1"] /\ ~disposed["c1"]

\* The outcomes of a receive() call that failed before reaching onReceive.
ReceiveFailed == {"disposed", "aborted", "notStarted"}

\* C10: fan-out is independent per target.  For every message a started node
\* has dispatched to its consumers, and for every message that reached the
\* onReceive of a ParallelNode, receive() has been called on every target of
\* the snapshot, whatever the other targets did with it (failed because not
\* started or disposed, buffered, or reached a hook that is still running);
\* and the receive() of the ParallelNode has resolved.
C10_FanoutIndependent ==
    /\ \A id \in DOMAIN created :
           (created[id].op = "dispatch" /\ created[id].res = "fanout") =>
               \A i \in DOMAIN consumers[created[id].node] :
                   <<consumers[created[id].node][i], id, created[id].node>> \in DOMAIN invoked
    /\ \A n \in Nodes :
           kind[n] = "parallel" =>
               \A i \in DOMAIN recvLog[n] :
                   /\ invoked[<<n, recvLog[n][i].msg.id, recvLog[n][i].by>>] = "ok"
                   /\ \A j \in DOMAIN children[n] :
                          <<children[n][j], recvLog[n][i].msg.id, n>> \in DOMAIN invoked

\* A dispatch by the started plain node p has returned: the receive() of its
\* first consumer failed and the hook of its second consumer is still running.
C10_Witness ==
    \E id \in DOMAIN created :
        /\ created[id].op = "dispatch" /\ created[id].res = "fanout"
        /\ created[id].node = "p"
        /\ <<"c1", id, "p">> \in DOMAIN invoked
        /\ invoked[<<"c1", id, "p">>] \in ReceiveFailed
        /\ <<"c2", id, "p">> \in DOMAIN invoked
        /\ invoked[<<"c2", id, "p">>] = "pending"

\* The same case at a ParallelNode: the message reached onReceive of p, the
\* receive() of the first child failed and the second child's hook is running.
ParallelFanoutReached ==
    \E i \in DOMAIN recvLog["p"] :
        /\ kind["p"] = "parallel"
        /\ <<"c1", recvLog["p"][i].msg.id, "p">> \in DOMAIN invoked
        /\ invoked[<<"c1", recvLog["p"][i].msg.id, "p">>] \in ReceiveFailed
        /\ <<"c2", recvLog["p"][i].msg.id, "p">> \in DOMAIN invoked
        /\ invoked[<<"c2", recvLog["p"][i].msg.id, "p">>] = "pending"

\* C11: from the first dispose() call on a node (which sets the disposed
\* flag at once) both buffers are empty in every state; no step passes a
\* message to the node's onReceive; every receive() made on the node, the
\* ones of its own flushInbound included, fails as disposed; the node calls
\* receive() on no consumer; and a dispatch() of the node creates no message.
C11_DisposedIsInert ==
    /\ [](\A n \in Nodes :
             disposed[n] => inboundBuffer[n] = <<>> /\ outboundBuffer[n] = <<>>)
    /\ [][\A n \in Nodes :
             disposed[n] =>
                 /\ recvLog'[n] = recvLog[n]
                 /\ bufferedLog'[n] = bufferedLog[n]
                 /\ \A k \in DOMAIN invoked' \ DOMAIN invoked :
                        /\ k[1] = n => invoked'[k] = "disposed"
                        /\ k[3] = n => k[1] = n
                 /\ \A id \in DOMAIN created' \ DOMAIN created : created'[id].node # n
       ]_vars

\* The producer buffered a dispatched message during its start and was then
\* disposed; its start has settled, the consumer is started and usable, and
\* the message never reached it.
C11_Witness ==
    /\ disposed["p"] /\ Settled(startPromise["p"])
    /\ \E id \in DOMAIN created : created[id].node = "p" /\ created[id].res = "buffered"
    /\ started["c1"] /\ ~disposed["c1"]
    /\ recvLog["c1"] = <<>> /\ bufferedLog["c1"] = <<>>

\* C12: disposed is terminal.  Once dispose() has been called on a node, in
\* whichever state, the disposed flag stays set, onStart is not invoked any
\* more, and every start() call made from then on is rejected at once.
C12_DisposedTerminal ==
    [][\A n \in Nodes :
          disposed[n] =>
              /\ disposed'[n]
              /\ onStartCalls'[n] = onStartCalls[n]
              /\ \A k \in AllStartCalls :
                     (startCall[n][k] = "idle" /\ startCall'[n][k] # "idle")
                         => startCall'[n][k] = "cannotStart"
      ]_vars

\* The first start() failed in onStart, the node was disposed afterwards and
\* the teardown ran; a second start() was then refused.
C12_Witness ==
    /\ startCall["p"][1] = "hookFail"
    /\ disposed["p"] /\ Settled(disposePromise["p"])
    /\ startCall["p"][2] = "cannotStart"
    /\ onStartCalls["p"] = 1

\* C13: when onDispose fails, every dispose() call that settles is rejected
\* with that failure, and the node is disposed all the same: the flag stays
\* set, a receive() fails as disposed without reaching onReceive or the
\* buffer, a start() is rejected at once and a dispatch() creates no message.
C13_FailedTeardownDisposed ==
    /\ [](\A n \in Nodes :
             disposePromise[n] = "hookFail" =>
                 /\ disposed[n] /\ aborted[n]
                 /\ \A k \in AllDisposeCalls :
                        Done(disposeCall[n][k]) => disposeCall[n][k] = "hookFail")
    /\ [][\A n \in Nodes :
             disposePromise[n] = "hookFail" =>
                 /\ disposed'[n] /\ aborted'[n]
                 /\ IsReceiveCall(n) =>
                        /\ invoked'[<<n, Len(created'), External>>] = "disposed"
                        /\ recvLog'[n] = recvLog[n]
                        /\ inboundBuffer'[n] = <<>>
                 /\ \A k \in AllStartCalls :
                        (startCall[n][k] = "idle" /\ startCall'[n][k] # "idle")
                            => startCall'[n][k] = "cannotStart"
                 /\ \A id \in DOMAIN created' \ DOMAIN created :
                        ~(created'[id].op = "dispatch" /\ created'[id].node = n)
       ]_vars

\* onDispose of a started node failed and both dispose() calls were rejected
\* with the failure; a start() made after the first dispose() was refused
\* and a receive() failed as disposed.
C13_Witness ==
    /\ startCall["p"][1] = "ok"
    /\ \A k \in DisposeCalls : disposeCall["p"][k] = "hookFail"
    /\ startCall["p"][2] = "cannotStart"
    /\ \E id \in DOMAIN created :
           /\ <<"p", id, External>> \in DOMAIN invoked
           /\ invoked[<<"p", id, External>>] = "disposed"

\* The step is a wiring or child-adding call: the entry it adds to the log.
BuildCall == Len(buildLog') = Len(buildLog) + 1

\* The node is past build time: starting, started, disposed or cancelled.
PastBuildTime(n) == starting[n] \/ started[n] \/ disposed[n] \/ aborted[n]

\* C14: register(consumer) and unregister(consumer) on a node that is
\* starting, started, disposed or cancelled raise a usage error and leave the
\* node's consumer list as it was.
C14_RegisterGuarded ==
    [][BuildCall =>
          LET e == buildLog'[Len(buildLog')]
          IN  (e.op \in {"register", "unregister"} /\ PastBuildTime(e.node)) =>
                  /\ e.raised
                  /\ consumers'[e.node] = consumers[e.node]
      ]_vars

\* C15: adding a child to a composite (ChainNode.node, ParallelNode.node)
\* that is starting, started, disposed or cancelled raises a usage error and
\* leaves every child list and every consumer list as it was.
C15_AddChildGuarded ==
    [][BuildCall =>
          LET e == buildLog'[Len(buildLog')]
          IN  (e.op = "node" /\ PastBuildTime(e.node)) =>
                  /\ e.raised
                  /\ children' = children
                  /\ consumers' = consumers
      ]_vars

\* A child was added to the composite at build time, the composite started
\* with it, and a later attempt to add a child raised.
C15_Witness ==
    /\ started["p"] /\ ~disposed["p"]
    /\ Len(children["p"]) = 1
    /\ \E i, j \in DOMAIN buildLog :
           /\ i < j
           /\ buildLog[i].op = "node" /\ ~buildLog[i].raised
           /\ buildLog[j].op = "node" /\ buildLog[j].raised


\* ----------------------------------------------------- Pipeline: lifecycle
\* A Pipeline of plain nodes, p registered with c1 or not, on which start()
\* and dispose() are each called up to MaxStartCalls and MaxDisposeCalls times
\* from outside, at any moment, also while an earlier call is still running.
\* An onStart or onDispose hook returns or throws.
PipeNodes == {"p", "c1"}

InitPipe ==
    /\ InitNode
    /\ msgLimit = 0
    /\ kind = [n \in Nodes |-> "leaf"]
    /\ children = [n \in Nodes |-> <<>>]
    /\ bridge = [n \in Nodes |-> ""]
    /\ owner = [n \in Nodes |-> ""]
    /\ ctor = [n \in Nodes |-> n]
    /\ dependsOn = [c \in Nodes |-> ""]
    /\ optional = [c \in Nodes |-> FALSE]
    /\ keepAliveRoots = {}
    /\ roots = <<"p", "c1">>
    /\ \E wired \in BOOLEAN :
           consumers = [n \in Nodes |-> IF wired /\ n = "p" THEN <<"c1">> ELSE <<>>]

NextPipe ==
    \/ \E k \in StartCalls : PipelineStart(k)
    \/ \E k \in StartCalls : PipelineStartStep(k)
    \/ \E k \in StartCalls : PipelineRollbackStep(k)
    \/ \E k \in DisposeCalls : PipelineDispose(k)
    \/ \E k \in DisposeCalls : PipelineDisposeStep(k)
    \/ \E k \in DisposeCalls : PipelineDisposeRoots(k)
    \/ \E n \in PipeNodes, ok \in BOOLEAN : OnStartSettle(n, ok)
    \/ \E n \in PipeNodes : FlushInbound(n)
    \/ \E n \in PipeNodes : StartFinish(n)
    \/ \E n \in PipeNodes : DisposeAfterStart(n)
    \/ \E n \in PipeNodes, ok \in BOOLEAN : OnDisposeSettle(n, ok)

SpecPipe == InitPipe /\ [][NextPipe]_vars


\* ------------------------------------------------------ Pipeline: add
\* An empty Pipeline and three plain nodes, p registered with c1 and c2 wired
\* to nothing.  Nodes are added, with or without keepAlive, at any moment of
\* the Pipeline's life, up to MaxBuildOps times; start() and dispose() are
\* each called once from outside.  An onStart hook returns or throws.
AddNodes == {"p", "c1", "c2"}

InitAdd ==
    /\ InitNode
    /\ NoPipeline
    /\ msgLimit = 0
    /\ kind = [n \in Nodes |-> "leaf"]
    /\ consumers = [n \in Nodes |-> IF n = "p" THEN <<"c1">> ELSE <<>>]
    /\ children = [n \in Nodes |-> <<>>]
    /\ bridge = [n \in Nodes |-> ""]
    /\ owner = [n \in Nodes |-> ""]

NextAdd ==
    \/ \E n \in AddNodes, ka \in BOOLEAN : PipelineAdd(n, ka)
    \/ PipelineStart(1)
    \/ PipelineStartStep(1)
    \/ PipelineRollbackStep(1)
    \/ PipelineDispose(1)
    \/ PipelineDisposeStep(1)
    \/ PipelineDisposeRoots(1)
    \/ \E n \in AddNodes, ok \in BOOLEAN : OnStartSettle(n, ok)
    \/ \E n \in AddNodes : FlushInbound(n)
    \/ \E n \in AddNodes : StartFinish(n)
    \/ \E n \in AddNodes : DisposeAfterStart(n)
    \/ \E n \in AddNodes : OnDisposeSettle(n, TRUE)

SpecAdd == InitAdd /\ [][NextAdd]_vars


\* ---------------------------------------------------- Pipeline: composites
\* Two composites, p with bridge b and c1 with bridge b2, each a ChainNode or
\* a ParallelNode, and a plain node c2; some of the three are added to the
\* Pipeline in some order.  Children are given to the composites by node()
\* calls, up to MaxBuildOps of them: c1 and c2 to p, c2 to c1, so that a
\* composite may be nested in the other and c2 may be the child of both.
\* Then Pipeline.start() is called once.  An onStart hook returns or throws.
OwnNodes == {"p", "c1", "c2"}

\* The node() calls made: composite and child.
OwnChildren == {<<"p", "c1">>, <<"p", "c2">>, <<"c1", "c2">>}

InitOwn ==
    /\ InitNode
    /\ msgLimit = 0
    /\ \E kp, kc \in {"parallel", "chain"} :
           kind = [n \in Nodes |-> IF n = "p" THEN kp ELSE IF n = "c1" THEN kc
                                   ELSE IF n \in {"b", "b2"} THEN "bridge" ELSE "leaf"]
    /\ consumers = [n \in Nodes |-> <<>>]
    /\ children = [n \in Nodes |-> <<>>]
    /\ bridge = [n \in Nodes |-> IF n = "p" THEN "b" ELSE IF n = "c1" THEN "b2" ELSE ""]
    /\ owner = [n \in Nodes |-> IF n = "b" THEN "p" ELSE IF n = "b2" THEN "c1" ELSE ""]
    /\ ctor = [n \in Nodes |-> n]
    /\ dependsOn = [c \in Nodes |-> ""]
    /\ optional = [c \in Nodes |-> FALSE]
    /\ keepAliveRoots = {}
    /\ roots \in Orders(OwnNodes)

NextOwn ==
    \/ \E e \in OwnChildren : pStart[1].pc = "idle" /\ AddChild(e[1], e[2])
    \/ PipelineStart(1)
    \/ PipelineStartStep(1)
    \/ PipelineRollbackStep(1)
    \/ \E n \in Nodes, ok \in BOOLEAN : OnStartSettle(n, ok)
    \/ \E n \in Nodes : FlushInbound(n)
    \/ \E n \in Nodes : StartFinish(n)
    \/ \E n \in {"p", "c1"} : StartBaseStep(n)
    \/ \E n \in {"p", "c1"} : RollbackStep(n)
    \/ \E n \in Nodes : DisposeAfterStart(n)
    \/ \E n \in Nodes : OnDisposeSettle(n, TRUE)
    \/ \E n \in {"p", "c1"} : DisposeBaseBridge(n)
    \/ \E n \in {"p", "c1"} : DisposeBaseDone(n)

SpecOwn == InitOwn /\ [][NextOwn]_vars


\* -------------------------------------------------- Pipeline: dependencies
\* Three plain nodes without wiring, c1 of its own class or of the class of
\* p; every class declares no dependency or a dependency, required or
\* optional, on any class, its own included; some of the nodes are added to
\* the Pipeline in some order, and Pipeline.start() is called once.  Classes
\* are named after their first instance.
DepNodes == {"p", "c1", "c2"}

InitDeps ==
    /\ InitNode
    /\ NoWiring
    /\ msgLimit = 0
    /\ keepAliveRoots = {}
    /\ roots \in Orders(DepNodes)
    /\ \E k \in {"p", "c1"} :
           ctor = [n \in Nodes |-> IF n = "c1" THEN k ELSE n]
    /\ \E deps \in [DepNodes -> DepNodes \cup {""}], opt \in [DepNodes -> BOOLEAN] :
        /\ \A c \in DepNodes : deps[c] = "" => ~opt[c]
        /\ dependsOn = [c \in Nodes |-> IF c \in DepNodes THEN deps[c] ELSE ""]
        /\ optional = [c \in Nodes |-> IF c \in DepNodes THEN opt[c] ELSE FALSE]

NextDeps ==
    \/ PipelineStart(1)
    \/ PipelineStartStep(1)
    \/ PipelineRollbackStep(1)
    \/ \E n \in DepNodes, ok \in BOOLEAN : OnStartSettle(n, ok)
    \/ \E n \in DepNodes : FlushInbound(n)
    \/ \E n \in DepNodes : StartFinish(n)
    \/ \E n \in DepNodes : DisposeAfterStart(n)
    \/ \E n \in DepNodes : OnDisposeSettle(n, TRUE)

SpecDeps == InitDeps /\ [][NextDeps]_vars

\* ------------------------------------------------------ Pipeline claims
\* The nodes managed by the Pipeline in the topology specification: the nodes
\* added to it, each its own anchor.
Managed == {roots[i] : i \in DOMAIN roots}

\* producer.register(consumer) between two managed nodes.
Feeds(producer, consumer) ==
    /\ producer \in Managed /\ consumer \in Managed /\ producer # consumer
    /\ Has(consumers[producer], consumer)

\* The class of 'dependent' declares a dependency on the class of 'provider'.
Provides(provider, dependent) ==
    /\ provider \in Managed /\ dependent \in Managed /\ provider # dependent
    /\ dependsOn[ctor[dependent]] = ctor[provider]

\* An edge of the start-order graph: a must be started before b.
MustPrecede(a, b) == Feeds(b, a) \/ Provides(a, b)

\* There is a path of edges from a to b that avoids the nodes in 'seen'.
RECURSIVE Reaches(_, _, _)
Reaches(a, b, seen) ==
    \/ MustPrecede(a, b)
    \/ \E x \in Managed \ seen : MustPrecede(a, x) /\ Reaches(x, b, seen \cup {x})

Cyclic == \E a \in Managed : Reaches(a, a, {a})

\* Every declared dependency of a managed node has its provider among the
\* managed nodes.
ProvidersPresent ==
    \A n \in Managed : dependsOn[ctor[n]] # "" =>
        \E x \in Managed : ctor[x] = dependsOn[ctor[n]]

\* The position of a node in the order in which it was added.
AddedAt(n) == CHOOSE i \in DOMAIN roots : roots[i] = n

\* C16: on an acyclic graph, start() is invoked on an anchor only when the
\* start() of every anchor it depends on (the provider of its declared
\* dependency, the consumers it feeds) has resolved, and never while the
\* start() of another anchor is neither resolved nor rejected.
C16_StartOrderSatisfiesEdges ==
    ~Cyclic =>
        /\ \A a, b \in Managed :
               (MustPrecede(a, b) /\ startCall[b][1] # "idle") => startPromise[a] = "ok"
        /\ \A a, b \in Managed :
               a # b => (startCall[a][1] \in {"idle", "ok"} \/ startCall[b][1] \in {"idle", "ok"})

\* Three anchors, a wiring edge and a dependency edge that both contradict
\* the order in which the nodes were added, and Pipeline.start() resolved.
C16_Witness ==
    /\ ~Cyclic
    /\ Cardinality(Managed) = 3
    /\ pStart[1].result = "ok"
    /\ \E a, b \in Managed : Feeds(b, a) /\ AddedAt(b) < AddedAt(a)
    /\ \E a, b \in Managed : Provides(a, b) /\ AddedAt(b) < AddedAt(a)
    /\ \A n \in Managed : started[n]


\* The anchors no order can place: those on a cycle of edges and those that
\* must come after one of them.
Unsorted ==
    {n \in Managed : \E a \in Managed :
        Reaches(a, a, {a}) /\ (a = n \/ Reaches(a, n, {a}))}

\* No start() was invoked on n and n is as constructed.
NeverStarted(n) ==
    /\ \A k \in AllStartCalls : startCall[n][k] = "idle"
    /\ onStartCalls[n] = 0
    /\ startPromise[n] = "none"
    /\ ~started[n] /\ ~starting[n]

\* C17: when the edges between the anchors contain a cycle, Pipeline.start()
\* rejects with the cycle error, which names exactly the anchors that could
\* not be ordered, and no start() or onStart of any node is invoked.
C17_CycleRejectedNothingStarted ==
    (Cyclic /\ ProvidersPresent) =>
        /\ \A n \in Nodes : NeverStarted(n)
        /\ ~pStarted
        /\ pStart[1].pc \in {"idle", "done"}
        /\ pStart[1].pc = "done" =>
               /\ pStart[1].result = "cycle"
               /\ pStart[1].stuck = Unsorted

\* Pipeline.start() rejected with the cycle error on a graph with a cycle of
\* two anchors, made of a wiring edge and a dependency edge, and a third
\* anchor outside it that could have been started.
C17_Witness ==
    /\ pStart[1].result = "cycle"
    /\ Cardinality(Managed) = 3
    /\ Cardinality(pStart[1].stuck) = 2
    /\ \E a, b \in pStart[1].stuck : Feeds(a, b) /\ Provides(a, b)


\* The outcomes of a start() call that rejected.
StartRejected == {"hookFail", "cannotStart", "disposedDuringStart"}

\* The positions in the computed order of the anchors whose start(), invoked
\* by Pipeline.start() call 1, rejected.
FailedAt == {i \in DOMAIN activeTopo : startCall[activeTopo[i]][1] \in StartRejected}

\* No dispose() was invoked on n.
NeverDisposed(n) ==
    /\ \A k \in AllDisposeCalls : disposeCall[n][k] = "idle"
    /\ onDisposeCalls[n] = 0
    /\ ~disposed[n]

\* C18: when the start of the k-th anchor of the computed order fails, the
\* anchors after it are never started or disposed, the failing anchor is not
\* started and not disposed, the anchors before it are disposed from the
\* (k-1)-th down to the first, each dispose() invoked only when the one
\* before has settled, whether it resolved or rejected, and Pipeline.start()
\* rejects, after the last of them, with the failure of the k-th start.
C18_RollbackOnStartFailure ==
    \A k \in FailedAt :
        LET undo(i) == disposeCall[activeTopo[i]][PipeRollback(1)]
        IN  /\ FailedAt = {k}
            /\ ~pStarted
            /\ \A i \in DOMAIN activeTopo : i > k =>
                   NeverStarted(activeTopo[i]) /\ NeverDisposed(activeTopo[i])
            /\ ~started[activeTopo[k]] /\ NeverDisposed(activeTopo[k])
            /\ \A i \in 1..(k - 1) :
                   /\ startCall[activeTopo[i]][1] = "ok"
                   /\ undo(i) # "idle" => \A j \in (i + 1)..(k - 1) : Settled(undo(j))
                   /\ \A c \in AllDisposeCalls :
                          c # PipeRollback(1) => disposeCall[activeTopo[i]][c] = "idle"
            /\ pStart[1].pc \in {"rollback", "done"}
            /\ pStart[1].pc = "done" =>
                   /\ pStart[1].result = startCall[activeTopo[k]][1]
                   /\ \A i \in 1..(k - 1) :
                          /\ Settled(undo(i))
                          /\ disposed[activeTopo[i]]
                          /\ onDisposeCalls[activeTopo[i]] = 1

\* The third of three anchors failed to start; the second was disposed first
\* and its onDispose threw, the first was disposed all the same, and
\* Pipeline.start() rejected with the failure of the third.
C18_Witness ==
    /\ Len(activeTopo) = 3
    /\ FailedAt = {3}
    /\ pStart[1].pc = "done" /\ pStart[1].result = "hookFail"
    /\ disposeCall[activeTopo[2]][PipeRollback(1)] = "hookFail"
    /\ disposeCall[activeTopo[1]][PipeRollback(1)] = "ok"


\* C19: whenever Pipeline.start() has settled, either it resolved and every
\* active anchor is started and not disposed, or it rejected and every active
\* anchor is disposed, the one whose start failed and those never reached
\* included, and none is started and usable.
C19_AllOrNothing ==
    pStart[1].pc = "done" =>
        IF pStart[1].result = "ok"
        THEN \A i \in DOMAIN activeTopo : Ready(World, activeTopo[i])
        ELSE \A i \in DOMAIN activeTopo :
                 disposed[activeTopo[i]] /\ ~Ready(World, activeTopo[i])


\* Pipeline.start() call k is made in this step.
PipelineStartCalled(k) == pStart[k].pc = "idle" /\ pStart'[k].pc # "idle"

\* C20: however many times and in whatever interleaving Pipeline.start() and
\* Pipeline.dispose() are called, the onStart and the onDispose of every
\* managed node run at most once; and a Pipeline.start() made when an earlier
\* call has resolved and no dispose() was called resolves at once, invoking
\* nothing and changing nothing.
C20_PipelineIdempotent ==
    /\ [](\A n \in Nodes : onStartCalls[n] <= 1 /\ onDisposeCalls[n] <= 1)
    /\ [][\A k \in StartCalls :
            ( /\ PipelineStartCalled(k)
              /\ \E j \in StartCalls : pStart[j].result = "ok"
              /\ \A d \in DisposeCalls : pDispose[d].pc = "idle" ) =>
                /\ pStart'[k].pc = "done" /\ pStart'[k].result = "ok"
                /\ \A j \in StartCalls \ {k} : pStart'[j] = pStart[j]
                /\ UNCHANGED <<started, starting, disposed, aborted, startPromise,
                               disposePromise, startPc, disposePc, hookPc, startCall,
                               disposeCall, liveStart, onStartCalls, onDisposeCalls,
                               pBuilt, pStarted, activeTopo, pDispose>>
       ]_vars

\* Two start() calls resolved, the second without invoking start() on any
\* node, then two dispose() calls finished; every onStart and onDispose ran
\* once.
C20_Witness ==
    /\ pStart[1].result = "ok" /\ pStart[2].result = "ok"
    /\ \A n \in PipeNodes : startCall[n][1] = "ok" /\ startCall[n][2] = "idle"
    /\ pDispose[1].pc = "done" /\ pDispose[2].pc = "done"
    /\ \A n \in PipeNodes : onStartCalls[n] = 1 /\ onDisposeCalls[n] = 1


\* dispose() is invoked on node n in this step by Pipeline.dispose().
DisposeInvokedByPipeline(n) ==
    \E c \in DisposeCalls : disposeCall[n][c] = "idle" /\ disposeCall'[n][c] # "idle"

\* C21: once the Pipeline is built, Pipeline.dispose() invokes dispose() on an
\* active anchor only when the dispose of every anchor after it in the start
\* order has settled, resolved or rejected; and a Pipeline.dispose() that has
\* returned resolved, with every active anchor disposed and settled.
C21_DisposeReverseOrder ==
    /\ [][pBuilt =>
            \A i \in DOMAIN activeTopo :
                DisposeInvokedByPipeline(activeTopo[i]) =>
                    \A j \in DOMAIN activeTopo :
                        j > i => Settled(disposePromise[activeTopo[j]])
       ]_vars
    /\ [](\A k \in DisposeCalls : pDispose[k].pc = "done" =>
            /\ pDispose[k].result = "ok"
            /\ \A i \in DOMAIN activeTopo :
                   disposed[activeTopo[i]] /\ Settled(disposePromise[activeTopo[i]]))

\* p feeds c1, so c1 started first; Pipeline.start() resolved, then
\* Pipeline.dispose() disposed p first, whose onDispose threw, then c1, and
\* resolved.
C21_Witness ==
    /\ activeTopo = <<"c1", "p">>
    /\ pStart[1].result = "ok"
    /\ pDispose[1].pc = "done" /\ pDispose[1].result = "ok"
    /\ disposeCall["p"][1] = "hookFail"
    /\ disposeCall["c1"][1] = "ok"
    /\ onDisposeCalls["c1"] = 1


\* A managed node with no wiring to or from another managed node and no
\* declared dependency on or by one.
Isolated(n) ==
    \A x \in Managed : ~Feeds(n, x) /\ ~Feeds(x, n) /\ ~Provides(n, x) /\ ~Provides(x, n)

\* C22: a node added without keepAlive that is isolated is never started by
\* Pipeline.start(); an isolated node added with keepAlive is started when
\* Pipeline.start() resolves on the schedule built from it.
C22_IsolatedNeedsKeepAlive ==
    \A n \in Managed : Isolated(n) =>
        /\ n \notin keepAliveRoots => NeverStarted(n)
        /\ (n \in keepAliveRoots /\ pBuilt /\ pStart[1].result = "ok") => started[n]


\* Pipeline.add() is called in this step.
AddCalled ==
    /\ Len(buildLog') = Len(buildLog) + 1
    /\ buildLog'[Len(buildLog')].op = "add"

\* C23: once a Pipeline.start() has resolved, every call to Pipeline.add()
\* raises and leaves the roots, the keep-alive set and the built schedule as
\* they were.
C23_AddAfterStartRaises ==
    [][(AddCalled /\ \E k \in StartCalls : pStart[k].result = "ok") =>
          /\ buildLog'[Len(buildLog')].raised
          /\ UNCHANGED <<roots, keepAliveRoots, pBuilt, activeTopo>>
      ]_vars


\* The children of the nodes of S, and the nodes the Pipeline collects: the
\* roots and everything below them.
ChildrenOf(S) == {c \in Nodes : \E x \in S : Has(children[x], c)}
Below(S) == S \cup ChildrenOf(S) \cup ChildrenOf(ChildrenOf(S))
Collectable == Below(Managed)

\* Some node is a child of two different collected composites.
AmbiguousOwner ==
    \E c \in Nodes, x, y \in Collectable :
        x # y /\ Has(children[x], c) /\ Has(children[y], c)

\* C24: when a node is the child of two different collected composites,
\* Pipeline.start() rejects with the ambiguous-ownership error and no node is
\* started, in whatever order the roots were added.
C24_AmbiguousOwnerRejected ==
    AmbiguousOwner =>
        /\ \A n \in Nodes : NeverStarted(n)
        /\ ~pStarted /\ ~pBuilt
        /\ pStart[1].pc \in {"idle", "done"}
        /\ pStart[1].pc = "done" => pStart[1].result = "multipleOwners"

\* c2 is a child of p and of c1, both composites were added, c1 first, and
\* Pipeline.start() rejected.
C24_Witness ==
    /\ Has(children["p"], "c2") /\ Has(children["c1"], "c2")
    /\ ~Has(children["p"], "c1")
    /\ roots = <<"c1", "p">>
    /\ pStart[1].result = "multipleOwners"


\* The managed instances of a class, and the class a managed node depends on.
Instances(c) == {n \in Managed : ctor[n] = c}
Needs(n) == dependsOn[ctor[n]]

MissingProvider ==
    \E n \in Managed : Needs(n) # "" /\ Instances(Needs(n)) = {} /\ ~optional[ctor[n]]
MultipleProviders ==
    \E n \in Managed : Needs(n) # "" /\ Cardinality(Instances(Needs(n))) > 1
SelfProvider ==
    \E n \in Managed : Needs(n) # "" /\ Instances(Needs(n)) = {n}

\* No declared dependency of a managed node has a managed provider.
NothingResolves == \A n \in Managed : Needs(n) = "" \/ Instances(Needs(n)) = {}

BuildErrors == {"multipleOwners", "multipleProviders", "missingProvider",
                "selfDependency", "cycle", "diverges"}

\* C25: a required dependency without a managed provider, a depended-on
\* class with more than one managed instance, and a node that is its own
\* provider each make Pipeline.start() reject with the matching error and
\* with no node started; when the only dependencies without a provider are
\* optional ones the build does not fail for them, and dependencies that
\* resolve to nothing leave the anchors in the order they were added.
C25_DependencyResolution ==
    /\ (MissingProvider \/ MultipleProviders \/ SelfProvider) =>
           /\ \A n \in Nodes : NeverStarted(n)
           /\ ~pStarted /\ ~pBuilt
           /\ pStart[1].pc \in {"idle", "done"}
           /\ pStart[1].pc = "done" =>
                  \/ pStart[1].result = "multipleProviders" /\ MultipleProviders
                  \/ pStart[1].result = "missingProvider" /\ MissingProvider
                  \/ pStart[1].result = "selfDependency" /\ SelfProvider
    /\ ~(MissingProvider \/ MultipleProviders \/ SelfProvider) =>
           /\ pStart[1].result \notin BuildErrors \ {"cycle"}
           /\ (NothingResolves /\ pStart[1].pc # "idle") =>
                  pBuilt /\ activeTopo = roots

\* All three nodes are managed, one of them declares an optional dependency
\* on a class without an instance, no dependency resolves, and
\* Pipeline.start() resolved.
C25_Witness ==
    /\ Cardinality(Managed) = 3
    /\ \E n \in Managed : Needs(n) # "" /\ Instances(Needs(n)) = {} /\ optional[ctor[n]]
    /\ NothingResolves
    /\ pStart[1].result = "ok"

\* ------------------------------------------------- composites: data flow
MaxFlowMsgs == 2

\* The MapNodes that become children of the composite.
FlowChildren == {"c1", "c2"}

\* The data of the messages sent into the composite.
FlowData == {1, 2}

\* The messages sent into the composite so far.
FlowInputs == {id \in DOMAIN created : created[id].op = "receive"}

\* A composite p (ChainNode or ParallelNode) with its bridge b, no child yet,
\* and a downstream consumer d registered with p.  The MapNodes c1 (double)
\* and c2 (square) become children of p, in any order; then d is started
\* from outside, then p, and nothing is disposed.  Messages with data enter by
\* receive() on p at any time from the call of p.start() on.
InitFlow ==
    /\ InitNode
    /\ NoPipeline
    /\ msgLimit = MaxFlowMsgs * (Cardinality(FlowChildren) + 2)
    /\ \E k \in {"parallel", "chain"} :
           kind = [n \in Nodes |-> IF n = "p" THEN k ELSE IF n = "b" THEN "bridge" ELSE "leaf"]
    /\ consumers = [n \in Nodes |-> IF n = "p" THEN <<"d">> ELSE <<>>]
    /\ children = [n \in Nodes |-> <<>>]
    /\ bridge = [n \in Nodes |-> IF n = "p" THEN "b" ELSE ""]
    /\ owner = [n \in Nodes |-> IF n = "b" THEN "p" ELSE ""]

NextFlow ==
    \/ \E c \in FlowChildren :
          /\ startPc["d"] = "none"
          /\ ~Has(children["p"], c)
          /\ AddChild("p", c)
    \/ Start("d", 1)
    \/ started["d"] /\ startPc["d"] = "settled" /\ Start("p", 1)
    \/ \E n \in Nodes : OnStartSettle(n, TRUE)
    \/ \E n \in Nodes : FlushInbound(n)
    \/ \E n \in Nodes : StartFinish(n)
    \/ StartBaseStep("p")
    \/ \E x \in FlowData :
          /\ Cardinality(FlowInputs) < MaxFlowMsgs
          /\ startPc["p"] # "none"
          /\ ReceiveData("p", x)
    \/ ChainReceiveSettle("p")
    \/ \E c \in FlowChildren : MapOnReceive(c)
    \/ OnReceiveSettle("d", TRUE)

SpecFlow == InitFlow /\ [][NextFlow]_vars


\* ----------------------------------------------------- data-flow claims
\* What a chain of MapNodes makes of the data x: the functions of the
\* children applied in append order.
RECURSIVE Compose(_, _)
Compose(cs, x) == IF cs = <<>> THEN x ELSE Compose(Tail(cs), Map(Head(cs), x))

\* The dispatches made by the composite p, all and those carrying v.
Dispatched == {id \in DOMAIN created : created[id].op = "dispatch" /\ created[id].node = "p"}
DispatchedWith(v) == {id \in Dispatched : created[id].data = v}

\* The messages p's onReceive was invoked with.
Received == DOMAIN recvLog["p"]

\* No onReceive hook is running.
Quiet == \A n \in Nodes : running[n] = {}

ChainOf(n) == kind["p"] = "chain" /\ Len(children["p"]) >= n

\* C26: a started ChainNode whose children each dispatch one output per input
\* dispatches, for every message it receives, exactly one message downstream,
\* and that message carries the composition of the children's functions in
\* append order: no value is dispatched more often than it was received (no
\* duplicate, no foreign value), and once every hook has returned each
\* received input has its output (nothing lost).
C26_ChainComposes ==
    ChainOf(1) =>
        /\ \A id \in Dispatched : created[id].res = "fanout"
        /\ \A id \in Dispatched :
              Cardinality(DispatchedWith(created[id].data)) <=
                  Cardinality({i \in Received :
                      Compose(children["p"], recvLog["p"][i].msg.data) = created[id].data})
        /\ Quiet => \A i \in Received :
              Cardinality(DispatchedWith(Compose(children["p"], recvLog["p"][i].msg.data))) =
                  Cardinality({j \in Received :
                      recvLog["p"][j].msg.data = recvLog["p"][i].msg.data})

\* A chain of two children has received two messages, one of them buffered
\* while the chain was starting, every hook has returned and the consumer d
\* got the composed value.
C26_Witness ==
    /\ ChainOf(2)
    /\ Quiet
    /\ Len(recvLog["p"]) = 2
    /\ Len(bufferedLog["p"]) >= 1
    /\ \E i \in DOMAIN recvLog["d"] :
          /\ recvLog["d"][i].by = "p"
          /\ recvLog["d"][i].msg.data = Compose(children["p"], recvLog["p"][1].msg.data)
          /\ recvLog["d"][i].msg.data # recvLog["p"][1].msg.data


ParallelOf(n) == kind["p"] = "parallel" /\ Len(children["p"]) >= n

\* The branch outputs equal to v that the messages received so far call for:
\* pairs of a received message and a branch.
BranchOutputs(v) ==
    {<<i, j>> \in Received \X DOMAIN children["p"] :
        Map(children["p"][j], recvLog["p"][i].msg.data) = v}

\* C27: a started ParallelNode whose k branches each dispatch one output per
\* input dispatches, for every message it receives, k messages downstream:
\* the output of each branch exactly once, in any order.  No value is
\* dispatched more often than the branches produce it, and once every hook
\* has returned each branch output of each received message has been
\* dispatched, k per message in all.
C27_ParallelFansOut ==
    ParallelOf(1) =>
        /\ \A id \in Dispatched : created[id].res = "fanout"
        /\ \A id \in Dispatched :
              Cardinality(DispatchedWith(created[id].data)) <=
                  Cardinality(BranchOutputs(created[id].data))
        /\ Quiet =>
              /\ Cardinality(Dispatched) = Len(children["p"]) * Len(recvLog["p"])
              /\ \A i \in Received, j \in DOMAIN children["p"] :
                    LET v == Map(children["p"][j], recvLog["p"][i].msg.data)
                    IN  Cardinality(DispatchedWith(v)) = Cardinality(BranchOutputs(v))

\* A ParallelNode with two branches has received a message, every hook has
\* returned and the consumer d got the two branch outputs, the output of the
\* second branch first.
C27_Witness ==
    /\ ParallelOf(2)
    /\ Quiet
    /\ Len(recvLog["p"]) >= 1
    /\ \E i, j \in DOMAIN recvLog["d"] :
          /\ i < j
          /\ recvLog["d"][i].by = "p" /\ recvLog["d"][j].by = "p"
          /\ recvLog["d"][i].msg.data = Map(children["p"][2], recvLog["p"][1].msg.data)
          /\ recvLog["d"][j].msg.data = Map(children["p"][1], recvLog["p"][1].msg.data)
          /\ recvLog["d"][i].msg.data # recvLog["d"][j].msg.data


\* ------------------------------------------------ start: the two buffers
MaxFlushMsgs == 4

\* One wiring edge, p.register(c1).  The consumer c1 is started from outside
\* at any time.  The producer p is started and disposed once from outside;
\* its own code calls dispatch() while onStart runs or later, and messages
\* arrive for it by receive() at any time.
InitFlush ==
    /\ InitNode
    /\ NoPipeline
    /\ msgLimit = MaxFlushMsgs
    /\ kind = [n \in Nodes |-> "leaf"]
    /\ consumers = [n \in Nodes |-> IF n = "p" THEN <<"c1">> ELSE <<>>]
    /\ children = [n \in Nodes |-> <<>>]
    /\ bridge = [n \in Nodes |-> ""]
    /\ owner = [n \in Nodes |-> ""]

NextFlush ==
    \/ \E n \in EdgeNodes : Start(n, 1)
    \/ OnStartSettle("c1", TRUE)
    \/ \E ok \in BOOLEAN : OnStartSettle("p", ok)
    \/ \E n \in EdgeNodes : FlushInbound(n)
    \/ \E n \in EdgeNodes : StartFinish(n)
    \/ \E n \in EdgeNodes : OnReceiveSettle(n, TRUE)
    \/ Receive("p")
    \/ Dispatch("p")
    \/ Dispose("p", 1)
    \/ DisposeAfterStart("p")
    \/ OnDisposeSettle("p", TRUE)

SpecFlush == InitFlush /\ [][NextFlush]_vars

\* The messages dispatch() buffered while p was starting.
BufferedOut == {id \in DOMAIN created :
                   /\ created[id].op = "dispatch"
                   /\ created[id].node = "p"
                   /\ created[id].res = "buffered"}

\* The invocations of p's onReceive with a message that receive() had
\* buffered while p was starting.
FlushedIn == {i \in DOMAIN recvLog["p"] :
                 \E j \in DOMAIN bufferedLog["p"] : bufferedLog["p"][j] = recvLog["p"][i].msg}

\* What c1.receive() was called with by p, in the order of the calls: a call
\* buffers the message or passes it to onReceive, and either is logged.  (The
\* entries of recvLog not made by p are those of c1's own flushInbound.)
Increasing(ids) == \A i, j \in DOMAIN ids : i < j => ids[i] < ids[j]
PassedBy(n) == Keep(recvLog["c1"],
                    {recvLog["c1"][i] : i \in {j \in DOMAIN recvLog["c1"] : recvLog["c1"][j].by = n}})

\* C28: when the start of a node succeeds, the messages its dispatch() put in
\* the outbound buffer during onStart are fanned out, in the order they were
\* dispatched, before onReceive gets the first message of the inbound buffer:
\* once onReceive has been invoked with a buffered inbound message, receive()
\* of the consumer has been called with every buffered outbound message, and
\* the consumer got the producer's messages in the order of their dispatch.
C28_OutboundFlushedFirst ==
    /\ FlushedIn # {} =>
          /\ outboundBuffer["p"] = <<>>
          /\ \A id \in BufferedOut : <<"c1", id, "p">> \in DOMAIN invoked
    /\ Increasing([i \in DOMAIN bufferedLog["c1"] |-> bufferedLog["c1"][i].id])
    /\ Increasing([i \in DOMAIN PassedBy("p") |-> PassedBy("p")[i].msg.id])

\* Two messages were buffered by dispatch() and one by receive() during
\* onStart; the start went on, the consumer's onReceive has the two messages
\* and p's onReceive runs with the buffered inbound message.
C28_Witness ==
    /\ Cardinality(BufferedOut) = 2
    /\ FlushedIn # {}
    /\ \A id \in BufferedOut : \E i \in DOMAIN recvLog["c1"] : recvLog["c1"][i].msg.id = id
    /\ \E id \in BufferedOut : id > bufferedLog["p"][1].id


\* ---------------------------------------------- Pipeline: anchors only
\* The ownership specification with Pipeline.dispose(): the composites get
\* their children before Pipeline.start() or Pipeline.dispose() is called;
\* each is called once, in either order and at any time.
NextAnchor ==
    \/ \E e \in OwnChildren :
          pStart[1].pc = "idle" /\ pDispose[1].pc = "idle" /\ AddChild(e[1], e[2])
    \/ PipelineStart(1)
    \/ PipelineStartStep(1)
    \/ PipelineRollbackStep(1)
    \/ PipelineDispose(1)
    \/ PipelineDisposeStep(1)
    \/ PipelineDisposeRoots(1)
    \/ \E n \in Nodes, ok \in BOOLEAN : OnStartSettle(n, ok)
    \/ \E n \in Nodes : FlushInbound(n)
    \/ \E n \in Nodes : StartFinish(n)
    \/ \E n \in {"p", "c1"} : StartBaseStep(n)
    \/ \E n \in {"p", "c1"} : RollbackStep(n)
    \/ \E n \in Nodes : DisposeAfterStart(n)
    \/ \E n \in Nodes : OnDisposeSettle(n, TRUE)
    \/ \E n \in {"p", "c1"} : DisposeBaseBridge(n)
    \/ \E n \in {"p", "c1"} : DisposeBaseDone(n)

SpecAnchor == InitOwn /\ [][NextAnchor]_vars

\* A node that a collected composite reports as its child, or a bridge.
OwnedNode(n) == kind[n] = "bridge" \/ n \in ChildrenOf(Collectable)

\* start() or dispose() has been called on n by Pipeline.start(), by its
\* rollback or by Pipeline.dispose().
StartedByPipeline(n) ==
    \/ \E k \in StartCalls : startCall[n][k] # "idle"
    \/ \E k \in StartCalls : disposeCall[n][PipeRollback(k)] # "idle"
DisposedByPipeline(n) == \E k \in DisposeCalls : disposeCall[n][k] # "idle"

\* C29 as stated: Pipeline.start() and Pipeline.dispose() never call start()
\* or dispose() on a node that a managed composite reports as its child, nor
\* on a bridge.
C29_AnchorsOnly ==
    \A n \in Nodes : OwnedNode(n) => ~StartedByPipeline(n) /\ ~DisposedByPipeline(n)

\* C29, amended: Pipeline.start() and its rollback never call start() or
\* dispose() on a child of a managed composite or on a bridge, and neither
\* does a Pipeline.dispose() called on a built Pipeline; a Pipeline.dispose()
\* called on a Pipeline that is not built calls dispose() on the roots as
\* added, children of other roots included, and on nothing else.
C29_AnchorsOnlyWhenBuilt ==
    /\ [](\A n \in Nodes : OwnedNode(n) => ~StartedByPipeline(n))
    /\ [](\A n \in Nodes : kind[n] = "bridge" => ~DisposedByPipeline(n))
    /\ [][\A n \in Nodes :
            DisposeInvokedByPipeline(n) =>
                IF pBuilt THEN ~OwnedNode(n) ELSE n \in Managed]_vars

\* Pipeline.start() and Pipeline.dispose() have both resolved on a Pipeline
\* to which the composite p, its child c1 (a composite itself) and c1's
\* child c2 were all added as roots: p was started and disposed by the
\* Pipeline, c1 and c2 by their owners only.
C29_Witness ==
    /\ pStart[1].result = "ok" /\ pDispose[1].result = "ok"
    /\ pBuilt
    /\ Managed = {"p", "c1", "c2"}
    /\ children["p"] = <<"c1">> /\ children["c1"] = <<"c2">>
    /\ startCall["p"][1] = "ok" /\ disposeCall["p"][1] = "ok"
    /\ \A n \in {"c1", "c2", "b", "b2"} :
          /\ started[n] /\ disposed[n]
          /\ ~StartedByPipeline(n) /\ ~DisposedByPipeline(n)


\* ------------------------------------------ Pipeline: links inside an anchor
\* The declared dependencies tried, one at a time: the class of the first
\* node depends on the class of the second (every node is of its own class).
SelfDeps == {<<"c1", "c2">>, <<"c2", "p">>, <<"p", "c2">>}

\* The register() calls made from outside: producer and consumer.
SelfWires == {<<"c2", "c1">>, <<"c2", "p">>, <<"p", "c2">>, <<"c1", "c2">>}

\* The roots added: the outer composite alone or after the plain node, and
\* the inner composite with the plain node.
SelfRoots == {<<"p">>, <<"c2", "p">>, <<"c1", "c2">>}

\* The composites p and c1 (both ChainNodes or both ParallelNodes) with their
\* bridges and the plain node c2, at most
\* one declared dependency, and roots added in one of a few ways.  Children are added (p.node(c1),
\* p.node(c2), c1.node(c2), a ChainNode wiring its children itself) and nodes
\* registered with each other before Pipeline.start() is called once; the
\* onStart hooks succeed.
InitSelf ==
    /\ InitNode
    /\ msgLimit = 0
    /\ \E k \in {"parallel", "chain"} :
           kind = [n \in Nodes |-> IF n \in {"p", "c1"} THEN k
                                   ELSE IF n \in {"b", "b2"} THEN "bridge" ELSE "leaf"]
    /\ consumers = [n \in Nodes |-> <<>>]
    /\ children = [n \in Nodes |-> <<>>]
    /\ bridge = [n \in Nodes |-> IF n = "p" THEN "b" ELSE IF n = "c1" THEN "b2" ELSE ""]
    /\ owner = [n \in Nodes |-> IF n = "b" THEN "p" ELSE IF n = "b2" THEN "c1" ELSE ""]
    /\ ctor = [n \in Nodes |-> n]
    /\ \E d \in SelfDeps \cup {<<"", "">>} :
           dependsOn = [c \in Nodes |-> IF c = d[1] THEN d[2] ELSE ""]
    /\ optional = [c \in Nodes |-> FALSE]
    /\ keepAliveRoots = {}
    /\ roots \in SelfRoots

NextSelf ==
    \/ \E e \in OwnChildren : pStart[1].pc = "idle" /\ AddChild(e[1], e[2])
    \/ \E e \in SelfWires : pStart[1].pc = "idle" /\ Register(e[1], e[2])
    \/ PipelineStart(1)
    \/ PipelineStartStep(1)
    \/ \E n \in Nodes : OnStartSettle(n, TRUE)
    \/ \E n \in Nodes : FlushInbound(n)
    \/ \E n \in Nodes : StartFinish(n)
    \/ \E n \in {"p", "c1"} : StartBaseStep(n)

SpecSelf == InitSelf /\ [][NextSelf]_vars

\* The collected composite that reports n as its child ("" when none does),
\* and the anchor of n: the owner-less node at the top of its owners.
ParentOf(n) ==
    IF \E x \in Collectable : Has(children[x], n)
    THEN CHOOSE x \in Collectable : Has(children[x], n) ELSE ""
TopOf(n) ==
    LET a == ParentOf(n)
    IN  IF a = "" THEN n ELSE IF ParentOf(a) = "" THEN a ELSE ParentOf(a)

\* The links between collected nodes: x provides what the class of y depends
\* on; the producer x has the consumer y registered.
DepLink(x, y) ==
    x \in Collectable /\ y \in Collectable /\ x # y /\ dependsOn[ctor[y]] = ctor[x]
WireLink(x, y) ==
    x \in Collectable /\ y \in Collectable /\ Has(consumers[x], y)

\* A link whose two ends have the same anchor, and one at depth two: between
\* the anchor and the child of its child.
InnerLink(x, y) == (DepLink(x, y) \/ WireLink(x, y)) /\ TopOf(x) = TopOf(y)
DeepInnerLink ==
    \E x, y \in Nodes : InnerLink(x, y) /\ x # y /\ {x, y} = {"p", "c2"}
                            /\ ParentOf("c2") = "c1" /\ ParentOf("c1") = "p"

\* The edges the links between different anchors call for.
OuterEdges ==
    LET top == [n \in OwnNodes |-> TopOf(n)]
        pairs == {e \in OwnNodes \X OwnNodes : top[e[1]] # top[e[2]]}
    IN  {<<top[e[1]], top[e[2]]>> : e \in {e \in pairs : DepLink(e[1], e[2])}}
        \cup
        {<<top[e[2]], top[e[1]]>> : e \in {e \in pairs : WireLink(e[1], e[2])}}

\* C30: the graph over the anchors has no edge from an anchor to itself.  A
\* declared dependency or a registration whose two ends have the same anchor,
\* at whatever depth below it, adds no edge: the edges, and with them the in-
\* and out-degrees, are exactly those of the links between different anchors,
\* and when there is no such link the build reports no cycle and
\* Pipeline.start() does not reject with the cycle error.
C30_NoSelfEdges ==
    ~AmbiguousOwner =>
        LET B == Build(World)
            outer == OuterEdges
        IN  /\ \A i \in DOMAIN B.edges : B.edges[i][1] # B.edges[i][2]
            /\ B.err \in {"none", "cycle"} =>
                  /\ {B.edges[i] : i \in DOMAIN B.edges} = outer
                  /\ \A a \in OwnNodes :
                        /\ InDegree(B.edges, a) = Cardinality({e \in outer : e[2] = a})
                        /\ OutDegree(B.edges, a) = Cardinality({e \in outer : e[1] = a})
            /\ outer = {} =>
                  /\ B.err # "cycle"
                  /\ pStart[1].result # "cycle"

\* Pipeline.start() has resolved on p with its child c1 and c1's child c2,
\* where a link joins p and c2, two levels apart, and no link joins
\* different anchors.
C30_Witness ==
    /\ DeepInnerLink
    /\ OuterEdges = {}
    /\ pStart[1].result = "ok"
    /\ started["p"] /\ started["c2"]


\* ------------------------------------------- composites: start and dispose
\* The nodes that become children of the composite.
CompChildren == {"c1", "c2", "d"}

\* The composite p of the build-time specification (ChainNode or
\* ParallelNode, with its bridge b) gets one to three distinct children, in
\* any order, before it is started or disposed.  It is started once and
\* disposed once from outside, the dispose at any time; the onStart and
\* onDispose hooks of the children succeed or fail.
NextComp ==
    \/ \E c \in CompChildren :
          /\ startPc["p"] = "none" /\ disposePromise["p"] = "none"
          /\ ~Has(children["p"], c)
          /\ AddChild("p", c)
    \/ Start("p", 1)
    \/ \E n \in Nodes, ok \in BOOLEAN : OnStartSettle(n, ok)
    \/ \E n \in Nodes : FlushInbound(n)
    \/ \E n \in Nodes : StartFinish(n)
    \/ StartBaseStep("p")
    \/ RollbackStep("p")
    \/ Dispose("p", 1)
    \/ \E n \in Nodes : DisposeAfterStart(n)
    \/ \E n \in Nodes, ok \in BOOLEAN : OnDisposeSettle(n, ok)
    \/ DisposeBaseBridge("p")
    \/ DisposeBaseDone("p")

SpecComp == InitBuild /\ [][NextComp]_vars


\* The position of a child of p, and the children of p after and before it.
PosOf(c) == CHOOSE i \in DOMAIN children["p"] : children["p"][i] = c
Kids == {children["p"][i] : i \in DOMAIN children["p"]}
KidsAfter(c) == {x \in Kids : PosOf(x) > PosOf(c)}
KidsBefore(c) == {x \in Kids : PosOf(x) < PosOf(c)}

\* start() of x was called by its composite; it has resolved; the composite
\* found that it rejected.
OwnerStarted(x) == startCall[x][OwnerStart] # "idle"
StartResolved(x) == startPromise[x] = "ok"
OwnerStartFailed(x) == startCall[x][OwnerStart] \notin {"idle", "waiting", "ok"}

\* The rollback of the composite has called dispose() on x; that dispose has
\* settled.
RolledBack(x) == disposeCall[x][OwnerRollback] # "idle"
RollbackSettled(x) == RolledBack(x) /\ Settled(disposePromise[x])
RollbackCalled(x) ==
    disposeCall[x][OwnerRollback] = "idle" /\ disposeCall'[x][OwnerRollback] # "idle"

\* C31: a ChainNode with children starts its bridge first and then the
\* children in reverse append order, each awaited: when start() is invoked on
\* a child, the start() of the bridge and of every child after it has
\* resolved.  When the start of a child fails, the rollback calls dispose()
\* on the children started, the one started last first and each when the
\* dispose before has settled, then on the bridge; the children not reached
\* are never started, and the chain's start settles only after that, rejected
\* with the error of the child, the chain not started.
C31_ChainStartOrder ==
    /\ [](kind["p"] = "chain" =>
            /\ \A c \in Kids : OwnerStarted(c) =>
                  StartResolved("b") /\ \A x \in KidsAfter(c) : StartResolved(x)
            /\ \A c \in Kids : OwnerStartFailed(c) =>
                  /\ \A x \in KidsBefore(c) : ~OwnerStarted(x) /\ startPromise[x] = "none"
                  /\ startPromise["p"] # "ok" /\ ~started["p"]
                  /\ Settled(startPromise["p"]) =>
                        /\ startPromise["p"] = startCall[c][OwnerStart]
                        /\ RollbackSettled("b")
                        /\ \A x \in KidsAfter(c) : RollbackSettled(x))
    /\ [][kind["p"] = "chain" =>
            /\ \A x \in Kids : RollbackCalled(x) =>
                  /\ \E c \in KidsBefore(x) : OwnerStartFailed(c)'
                  /\ \A y \in KidsBefore(x) : StartResolved(y) => RollbackSettled(y)
            /\ RollbackCalled("b") =>
                  \A y \in Kids : StartResolved(y) => RollbackSettled(y)]_vars

\* A chain of three children whose first child failed to start: the bridge,
\* the third and the second child were started and rolled back, and the
\* chain's start has rejected.
C31_Witness ==
    /\ kind["p"] = "chain" /\ Len(children["p"]) = 3
    /\ OwnerStartFailed(children["p"][1])
    /\ startPromise["p"] = "hookFail"
    /\ \A x \in {"b", children["p"][2], children["p"][3]} :
          StartResolved(x) /\ RollbackSettled(x) /\ disposed[x]


\* C32: in a ChainNode to which distinct children c1..cn (n >= 1) were
\* appended, every child but the last has the next child registered as a
\* consumer and not the bridge, the last child has the bridge registered,
\* head is the first child and tail the last.
C32_ChainWiring ==
    (kind["p"] = "chain" /\ children["p"] # <<>>) =>
        LET cs == children["p"]
            n == Len(cs)
        IN  /\ \A i \in 1..(n - 1) :
                  Has(consumers[cs[i]], cs[i + 1]) /\ ~Has(consumers[cs[i]], bridge["p"])
            /\ Has(consumers[cs[n]], bridge["p"])
            /\ \A x \in Nodes : Has(consumers[x], bridge["p"]) => x = cs[n]
            /\ head["p"] = cs[1]
            /\ tail["p"] = cs[n]

\* Three children were appended to the chain: two of them had the bridge
\* for a while and have the next child now.
C32_Witness ==
    /\ kind["p"] = "chain" /\ Len(children["p"]) = 3
    /\ Len(buildLog) = 3
    /\ head["p"] # tail["p"]
    /\ consumers[children["p"][1]] = <<children["p"][2]>>
    /\ consumers[children["p"][2]] = <<children["p"][3]>>
    /\ consumers[tail["p"]] = <<"b">>


\* C33: a parallel composite with children starts its bridge first and then
\* the children in append order, each awaited: when start() is invoked on a
\* child, the start() of the bridge and of every child before it has
\* resolved.  When the start of a child fails, the rollback calls dispose()
\* on the children started, the one started last first and each when the
\* dispose before has settled, then on the bridge; the children after the
\* failing one are never started, and the composite's start settles only
\* after that, rejected with the error of the child.
C33_ParallelStartOrder ==
    /\ [](kind["p"] = "parallel" =>
            /\ \A c \in Kids : OwnerStarted(c) =>
                  StartResolved("b") /\ \A x \in KidsBefore(c) : StartResolved(x)
            /\ \A c \in Kids : OwnerStartFailed(c) =>
                  /\ \A x \in KidsAfter(c) : ~OwnerStarted(x) /\ startPromise[x] = "none"
                  /\ startPromise["p"] # "ok" /\ ~started["p"]
                  /\ Settled(startPromise["p"]) =>
                        /\ startPromise["p"] = startCall[c][OwnerStart]
                        /\ RollbackSettled("b")
                        /\ \A x \in KidsBefore(c) : RollbackSettled(x))
    /\ [][kind["p"] = "parallel" =>
            /\ \A x \in Kids : RollbackCalled(x) =>
                  /\ \E c \in KidsAfter(x) : OwnerStartFailed(c)'
                  /\ \A y \in KidsAfter(x) : StartResolved(y) => RollbackSettled(y)
            /\ RollbackCalled("b") =>
                  \A y \in Kids : StartResolved(y) => RollbackSettled(y)]_vars

\* A parallel composite of three children whose last child failed to start:
\* the bridge, the first and the second child were started and rolled back,
\* and the composite's start has rejected.
C33_Witness ==
    /\ kind["p"] = "parallel" /\ Len(children["p"]) = 3
    /\ OwnerStartFailed(children["p"][3])
    /\ startPromise["p"] = "hookFail"
    /\ \A x \in {"b", children["p"][1], children["p"][2]} :
          StartResolved(x) /\ RollbackSettled(x) /\ disposed[x]


\* C34: the teardown of a composite is best-effort.  Once its onDispose runs,
\* dispose() has been called on every child; dispose() is called on the
\* bridge only when the dispose of every child has settled, resolved or
\* rejected; and when the composite's dispose() has settled, dispose() was
\* called on every child and on the bridge, has settled for each, and each
\* is disposed, whatever the children's teardown hooks did and whether the
\* composite's start succeeded, failed or was in flight when dispose() was
\* called.
C34_TeardownBestEffort ==
    /\ hookPc["p"].dispose # "none" =>
          \A c \in Kids : disposeCall[c][OwnerDispose] # "idle" /\ disposed[c]
    /\ disposeCall["b"][OwnerDispose] # "idle" =>
          \A c \in Kids : disposeCall[c][OwnerDispose] # "idle" /\ Settled(disposePromise[c])
    /\ Settled(disposePromise["p"]) =>
          \A x \in Kids \cup {"b"} :
              /\ disposeCall[x][OwnerDispose] # "idle"
              /\ Settled(disposePromise[x])
              /\ disposed[x]

\* dispose() of a composite of three children whose start was called and did
\* not succeed has settled although the teardown of its first child failed.
C34_Witness ==
    /\ Len(children["p"]) = 3
    /\ startCall["p"][1] # "idle" /\ startPromise["p"] # "ok"
    /\ disposePromise[children["p"][1]] = "hookFail"
    /\ Settled(disposePromise["p"])
    /\ \A x \in Kids \cup {"b"} : disposed[x]


\* ------------------------------------------- Pipeline: composites in a cycle
\* As for the composites above, p and c1 are composites and c2 is a plain
\* node, but the node() calls made may also give p to c1 or p to itself, so
\* that the composites can report each other, or themselves, as children.
CycleChildren ==
    {<<"p", "c1">>, <<"c1", "p">>, <<"p", "p">>, <<"p", "c2">>, <<"c1", "c2">>}

NextCycle ==
    \/ \E e \in CycleChildren : pStart[1].pc = "idle" /\ AddChild(e[1], e[2])
    \/ PipelineStart(1)
    \/ PipelineStartStep(1)
    \/ PipelineRollbackStep(1)
    \/ \E n \in Nodes, ok \in BOOLEAN : OnStartSettle(n, ok)
    \/ \E n \in Nodes : FlushInbound(n)
    \/ \E n \in Nodes : StartFinish(n)
    \/ \E n \in {"p", "c1"} : StartBaseStep(n)
    \/ \E n \in {"p", "c1"} : RollbackStep(n)
    \/ \E n \in Nodes : DisposeAfterStart(n)
    \/ \E n \in Nodes : OnDisposeSettle(n, TRUE)
    \/ \E n \in {"p", "c1"} : DisposeBaseBridge(n)
    \/ \E n \in {"p", "c1"} : DisposeBaseDone(n)

SpecCycle == InitOwn /\ [][NextCycle]_vars

\* C35: the build made by Pipeline.start() finishes for every structure of
\* children the composites report: the call never stays in the loop that
\* follows the ownership links.
C35_AnchorResolutionTerminates ==
    \A k \in StartCalls : pStart[k].pc # "diverged"


PipeStep ==
    \/ \E k \in StartCalls : PipelineStartStep(k) \/ PipelineRollbackStep(k)
    \/ \E k \in DisposeCalls : PipelineDisposeStep(k) \/ PipelineDisposeRoots(k)
    \/ \E n \in PipeNodes, ok \in BOOLEAN : OnStartSettle(n, ok) \/ OnDisposeSettle(n, ok)
    \/ \E n \in PipeNodes : FlushInbound(n) \/ StartFinish(n) \/ DisposeAfterStart(n)

FairPipe == WF_vars(PipeStep)

\* One Pipeline.start() call and one Pipeline.dispose() call are made, in
\* either order and at any moment.
NextPipeOnce ==
    \/ PipelineStart(1)
    \/ PipelineStartStep(1)
    \/ PipelineRollbackStep(1)
    \/ PipelineDispose(1)
    \/ PipelineDisposeStep(1)
    \/ PipelineDisposeRoots(1)
    \/ \E n \in PipeNodes, ok \in BOOLEAN : OnStartSettle(n, ok)
    \/ \E n \in PipeNodes : FlushInbound(n)
    \/ \E n \in PipeNodes : StartFinish(n)
    \/ \E n \in PipeNodes : DisposeAfterStart(n)
    \/ \E n \in PipeNodes, ok \in BOOLEAN : OnDisposeSettle(n, ok)

SpecPipeFair == InitPipe /\ [][NextPipeOnce]_vars /\ FairPipe

\* C37: every Pipeline.start() call and every Pipeline.dispose() call made
\* settles at some time, also a dispose() made while a start() is in flight,
\* and every dispose() of a node, also one made while the node's start is in
\* flight, settles at some time.
C37_EventuallySettles ==
    /\ \A k \in StartCalls : (pStart[k].pc # "idle") ~> (pStart[k].pc = "done")
    /\ \A k \in DisposeCalls : (pDispose[k].pc # "idle") ~> (pDispose[k].pc = "done")
    /\ \A n \in PipeNodes : (disposePromise[n] # "none") ~> Settled(disposePromise[n])


\* Pipeline.dispose() was called while Pipeline.start() was awaiting the
\* start of a node, which was thus disposed during its start: the node's
\* start and dispose and both Pipeline calls have settled.
C37_Witness ==
    /\ pStart[1].pc = "done" /\ pDispose[1].pc = "done"
    /\ \E n \in PipeNodes :
          /\ startPromise[n] = "disposedDuringStart"
          /\ pStart[1].result = "disposedDuringStart"
          /\ Settled(disposePromise[n])


\* C38: when Pipeline.dispose() was called while a Pipeline.start() call was
\* in flight and both calls have settled, every active anchor is disposed,
\* none is started and not disposed, and the start() call has not resolved:
\* it does not report success for anchors that dispose() had disposed.
C38_DisposeDuringStart ==
    \A d \in DisposeCalls : \A k \in pDispose[d].during :
        (pDispose[d].pc = "done" /\ pStart[k].pc = "done") =>
            /\ \A i \in DOMAIN activeTopo :
                  disposed[activeTopo[i]] /\ ~(started[activeTopo[i]] /\ ~disposed[activeTopo[i]])
            /\ pStart[k].result # "ok"


\* The start of n has failed before the node was started: onStart threw, or
\* the node was disposed while onStart ran.
StartFailed(n) == Settled(startPromise[n]) /\ startPromise[n] # "ok" /\ ~started[n]

\* C39: when the start of a node has failed in onStart, the messages that
\* were buffered during that start are discarded: no outbound one has been
\* or is fanned out to a consumer, no inbound one has been or is passed to
\* onReceive, both buffers are empty, the node is neither starting nor
\* started, and receive() fails.
C39_FailedStartDiscards ==
    StartFailed("p") =>
        /\ \A id \in BufferedOut : <<"c1", id, "p">> \notin DOMAIN invoked
        /\ FlushedIn = {}
        /\ inboundBuffer["p"] = <<>> /\ outboundBuffer["p"] = <<>>
        /\ ~starting["p"] /\ ~started["p"]
        /\ ReceiveKind(World, "p") \in {"disposed", "aborted", "notStarted"}

\* onStart of p threw after a message was buffered on each side, and a
\* receive() made after the failure was refused.
C39_Witness ==
    /\ startPromise["p"] = "hookFail"
    /\ BufferedOut # {}
    /\ bufferedLog["p"] # <<>>
    /\ \E call \in DOMAIN invoked : call[1] = "p" /\ invoked[call] = "notStarted"


\* C40: the flags starting and started of a node are never both true;
\* starting is true only while the one start operation of the node is in
\* onStart; started becomes true only in the step in which onStart has
\* returned without error and the node is not disposed; and started, once
\* true, stays true.
C40_LifecycleFlags ==
    /\ [](\A n \in Nodes :
            /\ ~(starting[n] /\ started[n])
            /\ starting[n] =>
                  /\ startPc[n] = "onStart"
                  /\ startPromise[n] = "pending"
                  /\ onStartCalls[n] = 1
            /\ started[n] =>
                  /\ onStartCalls[n] = 1
                  /\ startPromise[n] \in {"pending", "ok", "disposedDuringStart"})
    /\ [][\A n \in Nodes :
            /\ (~started[n] /\ started'[n]) =>
                  /\ starting[n] /\ ~starting'[n]
                  /\ startPc[n] = "onStart"
                  /\ ~disposed[n] /\ ~disposed'[n]
                  /\ ~aborted[n]
            /\ started[n] => started'[n]]_vars

\* The node was started, then disposed, and its teardown has settled: the
\* started flag is still true.
C40_Witness ==
    /\ started[Subject] /\ ~starting[Subject]
    /\ startPromise[Subject] = "ok"
    /\ disposed[Subject] /\ Settled(disposePromise[Subject])


====
